---- MODULE Spec2Model ----
(***************************************************************************)
(* Per-session request serialisation, turn validation and asynchronous     *)
(* commit of the completion server (package server), over the context      *)
(* store (package context_storage).                                        *)
(*                                                                         *)
(* The repository holds several iterations of the server.  The actions     *)
(* without prefix model the iteration with turn validation and the         *)
(* client-side mode (src/unnamed/part_010, lines 188-781); the actions     *)
(* prefixed SG model src/internal/app/server/server.go.                    *)
(***************************************************************************)
EXTENDS Integers, Sequences, FiniteSets, TLC

\* ---------------------------------------------------------------- bounds
NReq == 3                 \* requests handled during one run
NSessions == 1            \* session identifiers in use
MaxTurn == 2              \* largest client turn value sent
MaxMessages == 3          \* rows of one session in the messages table
MaxLimit == 2             \* largest limit handed to GetSessionMessages
MaxClock == 2             \* seconds that pass while the messages are added

\* ------------------------------------------------------ program constants
maxTurnRetries == 5

\* ------------------------------------------------------------ value sets
Req == 1..NReq
Sessions == 1..(NSessions + 1)   \* one more identifier for the concurrent run
NoSession == 0            \* clientReq.SessionID == ""
Modes == {"raw", "tokenized", "client-side", "bogus"}
Turns == 0..MaxTurn
Nil == [nil |-> TRUE, items |-> <<>>]       \* a nil slice
Slice(items) == [nil |-> FALSE, items |-> items]   \* a non-nil slice
NoMutex == <<0, 0>>
EmptyMsg == 0             \* assistantMsg == ""


VARIABLES
    pc,            \* position of each request handler goroutine
    clientReq,     \* decoded CompletionRequest: Mode, SessionID, Turn
    Retries,       \* clientReq.Retries
    currentTurn,   \* handler local currentTurn
    context,       \* handler local rawMessages / tokenizedContext
    assistantMsg,  \* handler local assistantMsg
    sessionLock,   \* handler local sessionLock (pointer to a mutex)
    status,        \* HTTP status written to the caller (0: none yet)
    respBody,      \* what the response carries besides the status
    llamaReq,      \* the prompt / context handed to llamaService.Completion
    apc,           \* position of each updateHistoryAndContextAsync goroutine
    asyncExit,     \* the exit the goroutine took
    initialContext,\* goroutine argument initialRawMessages / initialTokenizedContext
    sessionLocks,  \* Server.sessionLocks: session id -> mutex (NoMutex: no key)
    mutexCount,    \* number of sync.Mutex objects allocated per session id
    held,          \* the mutexes that are currently locked
    fatal,         \* Go runtime "unlock of unlocked mutex"
    tokStore,      \* context store, tokenized entries (key ctx_<id>)
    rawStore,      \* context store, raw entries (key raw_ctx_<id>)
    sessions,      \* rows of the session manager's sessions table
    messages,      \* rows of the session manager's messages table, per session
    \* history variables (not read by any guard)
    csPut,         \* per session: the successful put of the latest critical section
    everPut,       \* per session: the representations some put has written
    pred,          \* what the request found when it got the lock: no holder left, csPut
    reads,         \* context store reads issued by the request
    sleeps,        \* backoff sleeps taken by the request
    lastRead,      \* what the latest context read returned, and the store then
    lockCalls,     \* Lock calls returned and Unlock calls made for the request
    committed,     \* the entry a successful put of the request wrote
    created,       \* what the request has created: a session row, a session mutex
    \* the part of the program's behaviour a run explores
    scope,         \* sessions the run creates; lock holders ordered or interleaved
    \* a caller of the ContextStorage interface
    storeCall,     \* the latest call: which one, the backend's answer, its results
    lastPut,       \* per representation and session: what the latest put / delete did
    \* FReD: the keygroup on the cluster, and NewFReDContextStorage
    cluster,       \* the keygroup: exists, replica nodes, roles granted to the user
    boot,          \* position, locals and result of NewFReDContextStorage
    \* a caller of the session manager
    dbCall,        \* the latest call: which one, the clock, its results
    \* the Redis server behind RedisContextStorage
    redis          \* the keyspace: cache key -> the JSON document SET under it

\* clientReq.Prompt and the content string of the inference response: the
\* client's message of its turn, and the reply to it.
Prompt(r) == clientReq[r].Turn
Reply(r) == MaxTurn + 1 + clientReq[r].Turn

hvars == <<pc, clientReq, Retries, currentTurn, context, assistantMsg,
           sessionLock, status, respBody, llamaReq>>
avars == <<apc, asyncExit, initialContext>>
lvars == <<sessionLocks, mutexCount, held, fatal>>
svars == <<tokStore, rawStore, sessions, messages>>
gvars == <<csPut, everPut, pred, reads, sleeps, lastRead, lockCalls,
           committed>>
ovars == <<scope, storeCall, lastPut, cluster, boot, dbCall, redis>>
vars == <<hvars, avars, lvars, svars, gvars, created, ovars>>

\* ------------------------------------------------------- context store
\* RedisContextData / RawRedisContextData / FredContextData
AbsentEntry == [present |-> FALSE, payload |-> Nil, turn |-> 0]
NoRead == [kind |-> "none", payload |-> Nil, turn |-> 0, stored |-> AbsentEntry]
NoCommit == [present |-> FALSE, payload |-> Nil, turn |-> 0]
NoPut == [mode |-> "none", entry |-> AbsentEntry]
NoPred == [closed |-> TRUE, mode |-> "none", entry |-> AbsentEntry]
NothingCreated == [session |-> FALSE, mutex |-> FALSE]

\* json.Marshal of the stored structure: a nil slice is written as null
Marshal(payload, turn) == [context |-> payload, turn |-> turn]
\* json.Unmarshal into the structure
Unmarshal(doc) == [payload |-> doc.context, turn |-> doc.turn]

\* GetTokenizedSessionContext / GetRawSessionContext: (payload, turn, err).
\* backendOK = FALSE is a failed GET / Read or an undecodable value.
GetSessionContext(store, sid, backendOK) ==
    IF ~backendOK THEN [payload |-> Nil, turn |-> 0, err |-> "error"]
    ELSE IF ~store[sid].present THEN [payload |-> Nil, turn |-> 0, err |-> "notfound"]
    ELSE LET data == Unmarshal(Marshal(store[sid].payload, store[sid].turn))
         IN [payload |-> data.payload, turn |-> data.turn, err |-> "nil"]

\* IsNotFoundError
IsNotFoundError(err) == err = "notfound"

\* Fault: a put that appends to the payload the key holds
UpdateSessionContext_Merged(store, sid, newPayload, newTurn, backendOK) ==
    IF backendOK
    THEN [store EXCEPT ![sid] = [present |-> TRUE,
                                 payload |-> Slice(store[sid].payload.items \o newPayload.items),
                                 turn |-> newTurn]]
    ELSE store

\* Fault: a put that reports an error after it has written the entry
UpdateSessionContext_WrittenOnError(store, sid, newPayload, newTurn, backendOK) ==
    [store EXCEPT ![sid] = [present |-> TRUE,
                            payload |-> IF newPayload.nil THEN Slice(<<>>) ELSE newPayload,
                            turn |-> newTurn]]

\* UpdateSessionContext / UpdateRawSessionContext: full overwrite of the key
UpdateSessionContext(store, sid, newPayload, newTurn, backendOK) ==
    LET p == IF newPayload.nil THEN Slice(<<>>) ELSE newPayload
        doc == Marshal(p, newTurn)
    IN IF backendOK
       THEN [store EXCEPT ![sid] = [present |-> TRUE, payload |-> doc.context,
                                    turn |-> doc.turn]]
       ELSE store

StoreOf(mode) == IF mode = "raw" THEN rawStore ELSE tokStore

\* The backend's answer to a delete of the session's keys: an error, or
\* whether there was something to delete (FReD answers NotFound for an absent
\* key, Redis DEL counts no key).
DeleteResponse(present, backendOK) ==
    IF ~backendOK THEN "error" ELSE IF present THEN "ok" ELSE "notfound"

\* Fault: a delete that reports the absent key as an error
DeleteError_NotFoundFails(resp) == IF resp = "ok" THEN "nil" ELSE "error"

\* DeleteSessionContext: the error returned for the backend's answer
DeleteError(resp) == IF resp = "error" THEN "error" ELSE "nil"

\* DeleteSessionContext: the key after the call
DeleteEntry(store, sid, backendOK) ==
    IF backendOK THEN [store EXCEPT ![sid] = AbsentEntry] ELSE store

\* The payloads a caller of the interface hands to a put: nil, empty, one
\* item, two items in either order (token ids, or messages for "raw").
Item(mode, n) ==
    IF mode = "raw"
    THEN [Role |-> IF n = 1 THEN "user" ELSE "assistant", Content |-> n]
    ELSE n
StorePayloads(mode) ==
    {Nil, Slice(<<>>), Slice(<<Item(mode, 1)>>),
     Slice(<<Item(mode, 1), Item(mode, 2)>>), Slice(<<Item(mode, 2), Item(mode, 1)>>)}
StoreModes == {"raw", "tokenized"}

NoCall == [op |-> "none"]
NoPutYet == [st |-> "fresh", payload |-> Nil, turn |-> 0, shrunk |-> FALSE]

\* What the latest put or delete for the key did, and the record with the
\* keys of a call added.
LastPutOf(h, mode, sid) ==
    IF <<mode, sid>> \in DOMAIN h THEN h[<<mode, sid>>] ELSE NoPutYet
LastPutWith(h, news) ==
    [k \in DOMAIN h \cup DOMAIN news |-> IF k \in DOMAIN news THEN news[k] ELSE h[k]]

\* Fault: one mutex for the whole server instead of one per session
MutexFree_OneLockForAll(m) == held = {}

\* ------------------------------------------------------------- mutexes
\* Fault: a Lock() that never waits
MutexFree_NoWait(m) == TRUE

\* sync.Mutex.Lock blocks while the mutex is held
MutexFree(m) == m \notin held

\* sync.Mutex.Unlock: unlocking a mutex that is not locked is a fatal error
UnlockHeld(m) == IF m \in held THEN held \ {m} ELSE held
UnlockFatal(m) == m \notin held

\* ---------------------------------------------------------------- Init
\* A run that creates NSessions sessions and lets the lock holders of
\* different sessions step one after the other (their steps touch disjoint
\* state and commute), and a run with one session more whose lock holders are
\* interleaved step by step.
OrderedRun == [sessions |-> NSessions, ordered |-> TRUE, readFaults |-> TRUE]
ConcurrentRun == [sessions |-> NSessions + 1, ordered |-> FALSE, readFaults |-> TRUE]

\* A run against a store that answers every read (its puts may still fail),
\* the steps of the lock holders interleaved
ReliableRun == [sessions |-> NSessions, ordered |-> FALSE, readFaults |-> FALSE]

\* FReD before anyone has created the keygroup, and the storage object
\* before NewFReDContextStorage is called.
NoKeygroup == [exists |-> FALSE, replicas |-> {}, roles |-> {}, selfListed |-> TRUE]
NoInfo == [nil |-> TRUE, replicas |-> {}]
NotBooted == [pc |-> "idle"]

\* The session manager before anyone has called it
NoDbCall == [op |-> "none"]

\* A Redis server that holds no key
EmptyKeyspace == [k \in {} |-> [turn |-> 0]]

\* The server after NewServer: no request, empty registry, empty stores.
Started ==
    /\ pc = [r \in Req |-> "idle"]
    /\ clientReq = [r \in Req |-> [Mode |-> "undrawn", SessionID |-> NoSession, Turn |-> 0,
                                   OtherParams |-> {}]]
    /\ Retries = [r \in Req |-> 0]
    /\ currentTurn = [r \in Req |-> 0]
    /\ context = [r \in Req |-> Nil]
    /\ assistantMsg = [r \in Req |-> EmptyMsg]
    /\ sessionLock = [r \in Req |-> NoMutex]
    /\ status = [r \in Req |-> 0]
    /\ respBody = [r \in Req |-> [kind |-> "none"]]
    /\ llamaReq = [r \in Req |-> [sent |-> FALSE]]
    /\ apc = [r \in Req |-> "none"]
    /\ asyncExit = [r \in Req |-> "none"]
    /\ initialContext = [r \in Req |-> Nil]
    /\ sessionLocks = [s \in Sessions |-> NoMutex]
    /\ mutexCount = [s \in Sessions |-> 0]
    /\ held = {}
    /\ fatal = FALSE
    /\ tokStore = [s \in Sessions |-> AbsentEntry]
    /\ rawStore = [s \in Sessions |-> AbsentEntry]
    /\ sessions = {}
    /\ messages = [s \in Sessions |-> <<>>]
    /\ csPut = [s \in Sessions |-> NoPut]
    /\ everPut = [s \in Sessions |-> {}]
    /\ pred = [r \in Req |-> NoPred]
    /\ reads = [r \in Req |-> 0]
    /\ sleeps = [r \in Req |-> 0]
    /\ lastRead = [r \in Req |-> NoRead]
    /\ lockCalls = [r \in Req |-> [locks |-> 0, handler |-> 0, async |-> 0]]
    /\ committed = [r \in Req |-> NoCommit]
    /\ created = [r \in Req |-> NothingCreated]
    /\ storeCall = NoCall
    /\ lastPut = [k \in {} |-> NoPutYet]
    /\ boot = NotBooted
    /\ dbCall = NoDbCall
    /\ redis = EmptyKeyspace

Init == Started /\ scope = OrderedRun /\ cluster = NoKeygroup
InitConcurrent == Started /\ scope = ConcurrentRun /\ cluster = NoKeygroup
InitReliable == Started /\ scope = ReliableRun /\ cluster = NoKeygroup

\* ------------------------------------------------- handleCompletion
\* Both goroutines of the request have returned.
Finished(r) == pc[r] = "done" /\ apc[r] \in {"none", "done"}

\* The process is alive, and the locals of every finished request are gone
\* (Retire runs before anything else does).
Alive == ~fatal /\ \A r \in Req : ~Finished(r)

\* The handler has only its response left to write and no goroutine of the
\* request is running: the write touches nothing shared, so the model lets it
\* happen before any other goroutine moves.
Responding(r) == pc[r] = "respond" /\ apc[r] \in {"none", "done"}
Running == Alive /\ \A r \in Req : ~Responding(r)

\* The steps before Lock() touch the session table and the lock registry
\* only, the steps between Lock() and Unlock() touch the request's locals and
\* the store entries of its session only: the two kinds commute, and so do the
\* steps of two lock holders.  The model runs the steps before Lock() first,
\* in an ordered run among several lock holders the one that arrived first
\* (a concurrent run interleaves the holders of different sessions), and it lets a
\* request take its lock before the requests that arrived after it take
\* theirs or once they have released them.  Requests waiting for Lock() are
\* alike (Mode and Turn are inspected after Lock() only), so the one with the
\* lowest label stands for the one that gets the mutex.
BeforeLock(r) == pc[r] \in {"create", "registry", "regcreate"}
Holding(r) ==
    \/ pc[r] \in {"locked", "read", "sleep", "completion"}
    \/ apc[r] \in {"start", "increment", "update"}
MayStep(r) ==
    /\ Running
    /\ \A q \in Req : ~BeforeLock(q)
    /\ scope.ordered => \A q \in Req : q < r => ~Holding(q)
MayLock(r) ==
    /\ Running
    /\ \A q \in Req : ~BeforeLock(q)
    /\ scope.ordered => \A q \in Req : q > r => ~Holding(q)
    /\ \A q \in Req :
         (q < r /\ (scope.ordered \/ clientReq[q].SessionID = clientReq[r].SessionID))
            => ~(pc[q] = "lock" /\ sessionLock[q] \notin held)

\* Requests are labelled in the order of their arrival.
Arrived(r) == pc[r] # "idle"

\* CreateSession draws a random id: ids are labelled in the order of their
\* creation.  A client sends no session id or one the server has issued.
FreshSessions == (1..scope.sessions) \ sessions
NextSession == {s \in FreshSessions : \A t \in FreshSessions : s <= t}

\* A decoded body whose Mode and Turn fields have not been inspected yet: the
\* handler reads them only after Lock() (the turn check, the mode dispatch),
\* and the model draws their values there.
Undrawn(sid) == [Mode |-> "undrawn", SessionID |-> sid, Turn |-> 0, OtherParams |-> {}]

\* The top-level keys of a request body: the prompt, with or without a
\* "context" key next to it.
BodyFields == {{"prompt"}, {"prompt", "context"}}

\* Fault: an unmarshaller without the check of the "context" key
ContextDisallowed_Never(allFields) == FALSE

\* UnmarshalJSON: if _, found := allFields["context"]; found { return errors.New(...) }
ContextDisallowed(allFields) == "context" \in allFields

\* UnmarshalJSON: the keys left after the deletes of the known fields
OtherParams(allFields) ==
    allFields \ {"mode", "session_id", "user_id", "turn", "prompt", "model",
                 "temperature", "seed", "stream"}

\* json Decode of the body (UnmarshalJSON rejects a "context" key), then the
\* session id branch.
DecodeRequest(r) ==
    /\ Running /\ pc[r] = "idle"
    /\ \A q \in Req : q < r => Arrived(q)
    /\ \E sid \in sessions \cup {NoSession},
          allFields \in BodyFields :
        IF ContextDisallowed(allFields)
        THEN /\ sid = NoSession
             /\ pc' = [pc EXCEPT ![r] = "done"]
             /\ status' = [status EXCEPT ![r] = 400]
             /\ respBody' = [respBody EXCEPT ![r] = [kind |-> "invalid body"]]
             /\ UNCHANGED clientReq
        ELSE /\ clientReq' = [clientReq EXCEPT ![r] =
                                 [Undrawn(sid) EXCEPT !.OtherParams = OtherParams(allFields)]]
             /\ pc' = [pc EXCEPT ![r] = IF sid = NoSession THEN "create" ELSE "registry"]
             /\ UNCHANGED <<status, respBody>>
    /\ UNCHANGED <<Retries, currentTurn, context, assistantMsg, sessionLock, llamaReq>>
    /\ UNCHANGED <<avars, lvars, svars, gvars, created>>
    /\ UNCHANGED ovars

\* s.sessionManager.CreateSession: a new row under a random id, or an error
CreateSession(r) ==
    /\ Running /\ pc[r] = "create"
    /\ \/ \E sid \in NextSession :
            /\ sessions' = sessions \cup {sid}
            /\ clientReq' = [clientReq EXCEPT ![r].SessionID = sid]
            /\ pc' = [pc EXCEPT ![r] = "registry"]
            /\ created' = [created EXCEPT ![r].session = TRUE]
            /\ UNCHANGED <<status, respBody>>
       \/ /\ pc' = [pc EXCEPT ![r] = "done"]
          /\ status' = [status EXCEPT ![r] = 500]
          /\ respBody' = [respBody EXCEPT ![r] = [kind |-> "create session failed"]]
          /\ UNCHANGED <<sessions, clientReq, created>>
    /\ UNCHANGED <<Retries, currentTurn, context, assistantMsg, sessionLock, llamaReq>>
    /\ UNCHANGED <<avars, lvars, tokStore, rawStore, messages, gvars>>
    /\ UNCHANGED ovars

\* locksMutex.RLock(); sessionLock, ok := sessionLocks[id]; locksMutex.RUnlock()
RegistryRead(r) ==
    /\ Running /\ pc[r] = "registry"
    /\ LET sid == clientReq[r].SessionID
           ok == sessionLocks[sid] # NoMutex
       IN /\ sessionLock' = [sessionLock EXCEPT ![r] = sessionLocks[sid]]
          /\ pc' = [pc EXCEPT ![r] = IF ok THEN "lock" ELSE "regcreate"]
    /\ UNCHANGED <<clientReq, Retries, currentTurn, context, assistantMsg, status, respBody, llamaReq>>
    /\ UNCHANGED <<avars, lvars, svars, gvars, created>>
    /\ UNCHANGED ovars

\* Fault: a write-locked section that allocates without the double check
RegistryAfterCreate_NoDoubleCheck(reg, count, sid) ==
    [reg EXCEPT ![sid] = <<sid, count[sid] + 1>>]

\* The map after the write-locked section: a mutex is allocated only when the
\* key is still absent (double check).
RegistryAfterCreate(reg, count, sid) ==
    IF reg[sid] = NoMutex
    THEN [reg EXCEPT ![sid] = <<sid, count[sid] + 1>>]
    ELSE reg

\* locksMutex.Lock(); double check; create; read; locksMutex.Unlock()
RegistryCreate(r) ==
    /\ Running /\ pc[r] = "regcreate"
    /\ LET sid == clientReq[r].SessionID
           reg == RegistryAfterCreate(sessionLocks, mutexCount, sid)
       IN /\ sessionLocks' = reg
          /\ mutexCount' = IF reg[sid] # sessionLocks[sid]
                           THEN [mutexCount EXCEPT ![sid] = @ + 1] ELSE mutexCount
          /\ sessionLock' = [sessionLock EXCEPT ![r] = reg[sid]]
          /\ created' = [created EXCEPT ![r].mutex = reg[sid] # sessionLocks[sid]]
          /\ pc' = [pc EXCEPT ![r] = "lock"]
    /\ UNCHANGED <<clientReq, Retries, currentTurn, context, assistantMsg, status, respBody, llamaReq>>
    /\ UNCHANGED <<avars, held, fatal, svars, gvars>>
    /\ UNCHANGED ovars

\* sessionLock.Lock()
AcquireSessionLock(r) ==
    /\ MayLock(r) /\ pc[r] = "lock"
    /\ MutexFree(sessionLock[r])
    /\ held' = held \cup {sessionLock[r]}
    /\ pc' = [pc EXCEPT ![r] = "locked"]
    /\ LET sid == clientReq[r].SessionID
           others == {q \in Req \ {r} : Holding(q) /\ clientReq[q].SessionID = sid}
       IN /\ pred' = [pred EXCEPT ![r] = [closed |-> others = {}, mode |-> csPut[sid].mode,
                                          entry |-> csPut[sid].entry]]
          /\ csPut' = [csPut EXCEPT ![sid] = NoPut]
    /\ UNCHANGED <<clientReq, Retries, currentTurn, context, assistantMsg,
                   sessionLock, status, respBody, llamaReq>>
    /\ lockCalls' = [lockCalls EXCEPT ![r].locks = @ + 1]
    /\ UNCHANGED <<avars, sessionLocks, mutexCount, fatal, svars>>
    /\ UNCHANGED <<everPut, reads, sleeps, lastRead, committed, created>>
    /\ UNCHANGED ovars

\* Fault: a return of the handler that forgets Unlock()
HandlerUnlock_Missing(r) == UNCHANGED <<held, fatal, lockCalls>>

\* sessionLock.Unlock() called by the handler goroutine of r
HandlerUnlock(r) ==
    /\ held' = UnlockHeld(sessionLock[r])
    /\ fatal' = (fatal \/ UnlockFatal(sessionLock[r]))
    /\ lockCalls' = [lockCalls EXCEPT ![r].handler = @ + 1]

\* http.Error(w, ..., code) followed by return
Reject(r, code, body) ==
    /\ pc' = [pc EXCEPT ![r] = "done"]
    /\ status' = [status EXCEPT ![r] = code]
    /\ respBody' = [respBody EXCEPT ![r] = body]

\* The record of what the request created is kept up to the checks of its
\* fields and, for a request that goes on to read its context, up to its first
\* read; beyond them only for a request the checks reject.
CreatedAfterCheck(r, kept) ==
    IF kept THEN created ELSE [created EXCEPT ![r] = NothingCreated]

\* Fault: a turn check that lets turn 0 through
TurnInvalid_NegativeOnly(turn) == turn < 0

\* if clientReq.Turn < 1
TurnInvalid(turn) == turn < 1

\* Steps after Lock(): the turn check, then the mode dispatch up to the first
\* context read.
CheckTurnAndMode(r) ==
    /\ MayStep(r) /\ pc[r] = "locked"
    /\ \E mode \in Modes, turn \in Turns :
        /\ clientReq' = [clientReq EXCEPT ![r].Mode = mode, ![r].Turn = turn]
        /\ IF TurnInvalid(turn)
           THEN /\ Reject(r, 400, [kind |-> "invalid turn"])
                /\ HandlerUnlock(r)
           ELSE IF mode \in {"raw", "tokenized"}
           THEN /\ pc' = [pc EXCEPT ![r] = "read"]
                /\ UNCHANGED <<status, respBody, held, fatal, lockCalls>>
           ELSE IF mode = "client-side"
           THEN /\ pc' = [pc EXCEPT ![r] = "completion"]
                /\ UNCHANGED <<status, respBody, held, fatal, lockCalls>>
           ELSE /\ Reject(r, 400, [kind |-> "invalid mode"])
                /\ HandlerUnlock(r)
    /\ UNCHANGED <<Retries, currentTurn, context, assistantMsg, sessionLock, llamaReq>>
    /\ UNCHANGED <<avars, sessionLocks, mutexCount, svars>>
    /\ UNCHANGED <<csPut, everPut, pred, reads, sleeps, lastRead, committed>>
    /\ created' = CreatedAfterCheck(r, pc'[r] \in {"done", "read"})
    /\ UNCHANGED ovars

\* Fault: a handler for which a read that returned an error yields no turn
NormalizeRead_NoFreshStart(res) ==
    IF res.err # "nil" THEN [payload |-> Nil, turn |-> -1]
    ELSE [payload |-> res.payload, turn |-> res.turn]

\* What the handler keeps of a read (the if / else-if / else after the Get):
\* an error of either kind and a nil payload both count as a fresh session.
NormalizeRead(res) ==
    IF res.err # "nil" THEN [payload |-> Slice(<<>>), turn |-> 0]
    ELSE IF ~res.payload.nil THEN [payload |-> res.payload, turn |-> res.turn]
    ELSE [payload |-> Slice(<<>>), turn |-> 0]

\* Fault: a turn check that lets a client skip turns
TurnAccepted_AtLeast(turn, cur) == turn >= cur + 1

\* if clientReq.Turn == currentTurn+1
TurnAccepted(turn, cur) == turn = cur + 1

\* fmt.Sprintf("Turn mismatch after retries. Expected turn %d, but got %d.", ...)
ConflictBody(cur, turn) == [kind |-> "conflict", expected |-> cur + 1, received |-> turn]

\* Fault: a loop that gives up one attempt later
LastAttempt_OneMore(i) == i = maxTurnRetries + 1

\* i == maxTurnRetries
LastAttempt(i) == i = maxTurnRetries

\* Fault: a loop that keeps the payload of its first attempt
AttemptPayload_FirstKept(r, kept) == IF reads[r] = 0 THEN kept.payload ELSE context[r]

\* rawMessages, currentTurn, errCtx = GetRawSessionContext(...) (tokenized:
\* tokenizedContext, ...): every attempt assigns the payload variable anew.
AttemptPayload(r, kept) == kept.payload

\* Whether the store answers a read of the handler: either way, or, in a run
\* against a store that answers every read, always.
ReadAnswers == IF scope.readFaults THEN BOOLEAN ELSE {TRUE}

\* One iteration of the turn validation loop up to its break, return or Sleep.
ReadContext(r) ==
    /\ MayStep(r) /\ pc[r] = "read"
    /\ \E backendOK \in ReadAnswers :
        LET mode == clientReq[r].Mode
            sid == clientReq[r].SessionID
            res == GetSessionContext(StoreOf(mode), sid, backendOK)
            kept == NormalizeRead(res)
            seen == [kind |-> res.err, payload |-> res.payload, turn |-> res.turn,
                     stored |-> StoreOf(mode)[sid]]
        IN /\ context' = [context EXCEPT ![r] = AttemptPayload(r, kept)]
           /\ currentTurn' = [currentTurn EXCEPT ![r] = kept.turn]
           /\ reads' = [reads EXCEPT ![r] = @ + 1]
           /\ lastRead' = [lastRead EXCEPT ![r] = seen]
           /\ IF TurnAccepted(clientReq[r].Turn, kept.turn)
              THEN /\ pc' = [pc EXCEPT ![r] = "completion"]
                   /\ UNCHANGED <<status, respBody, held, fatal, lockCalls>>
              ELSE IF LastAttempt(Retries[r])
              THEN /\ Reject(r, 409, ConflictBody(kept.turn, clientReq[r].Turn))
                   /\ HandlerUnlock(r)
              ELSE /\ pc' = [pc EXCEPT ![r] = "sleep"]
                   /\ UNCHANGED <<status, respBody, held, fatal, lockCalls>>
    /\ UNCHANGED <<clientReq, Retries, assistantMsg, sessionLock, llamaReq>>
    /\ UNCHANGED <<avars, sessionLocks, mutexCount, svars>>
    /\ UNCHANGED <<csPut, everPut, pred, sleeps, committed>>
    /\ created' = CreatedAfterCheck(r, FALSE)
    /\ UNCHANGED ovars

\* time.Sleep(turnRetryDelay); i++; clientReq.Retries = i
RetrySleep(r) ==
    /\ MayStep(r) /\ pc[r] = "sleep"
    /\ Retries' = [Retries EXCEPT ![r] = @ + 1]
    /\ sleeps' = [sleeps EXCEPT ![r] = @ + 1]
    /\ pc' = [pc EXCEPT ![r] = "read"]
    /\ UNCHANGED <<clientReq, currentTurn, context, assistantMsg, sessionLock,
                   status, respBody, llamaReq>>
    /\ UNCHANGED <<avars, lvars, svars>>
    /\ UNCHANGED <<csPut, everPut, pred, reads, lastRead, lockCalls, committed, created>>
    /\ UNCHANGED ovars

\* The value of a "context" key that came with the request body
ClientContext == <<"from the request body">>

\* The request built for the inference service.  The keys of OtherParams are
\* copied first, then the mode branch sets "prompt" and, tokenized with a
\* non-empty context only, "context".  raw: the stored messages are rendered
\* in front of the prompt; client-side: the prompt alone.
BuildLlamaReq(mode, ctx, prompt, other) ==
    LET copied == "context" \in other
    IN IF mode = "raw"
       THEN [sent |-> TRUE, prompt |-> ctx.items \o <<[Role |-> "user", Content |-> prompt]>>,
             hasContext |-> copied, context |-> IF copied THEN ClientContext ELSE <<>>]
       ELSE IF mode = "tokenized"
       THEN [sent |-> TRUE, prompt |-> <<[Role |-> "user", Content |-> prompt]>>,
             hasContext |-> copied \/ Len(ctx.items) > 0,
             context |-> IF Len(ctx.items) > 0 THEN ctx.items
                         ELSE IF copied THEN ClientContext ELSE <<>>]
       ELSE [sent |-> TRUE, prompt |-> <<[Role |-> "user", Content |-> prompt]>>,
             hasContext |-> copied, context |-> IF copied THEN ClientContext ELSE <<>>]

\* Fault: a handler that calls Unlock whatever the mode
HandlerReleases_Always(mode) == TRUE

\* Fault: a handler that never calls Unlock after the inference call
HandlerReleases_Never(mode) == FALSE

\* After a successful inference call: if clientReq.Mode == "client-side" the
\* handler calls Unlock, else the goroutine is started and keeps the lock.
HandlerReleases(mode) == mode = "client-side"

\* Fault: a go statement executed whatever the mode
StartsAsyncUpdate_EveryMode(mode) == TRUE

\* else { go s.updateHistoryAndContextAsync(...) }
StartsAsyncUpdate(mode) == mode # "client-side"

\* Fault: a go statement placed in front of the error check
ReachesDispatch_Always(outcome) == TRUE

\* The return of the error branch (if err != nil { ...; return }) ends the
\* handler before the dispatch at the end of the function.
ReachesDispatch(outcome) == outcome # "error"

\* llamaService.Completion, the extraction of assistantMsg, and the
\* client-side Unlock or the go statement.
CallCompletion(r) ==
    /\ MayStep(r) /\ pc[r] = "completion"
    /\ llamaReq' = [llamaReq EXCEPT ![r] =
                       BuildLlamaReq(clientReq[r].Mode, context[r], Prompt(r),
                                     clientReq[r].OtherParams)]
    /\ \E outcome \in {"error", "content", "no content"} :
        /\ IF outcome = "error"
           THEN /\ Reject(r, 500, [kind |-> "completion failed"])
                /\ HandlerUnlock(r)
                /\ UNCHANGED assistantMsg
           ELSE /\ assistantMsg' = [assistantMsg EXCEPT ![r] =
                                       IF outcome = "content" THEN Reply(r) ELSE EmptyMsg]
                /\ pc' = [pc EXCEPT ![r] = "respond"]
                /\ UNCHANGED <<status, respBody>>
                /\ IF HandlerReleases(clientReq[r].Mode)
                   THEN HandlerUnlock(r)
                   ELSE UNCHANGED <<held, fatal, lockCalls>>
        /\ IF ReachesDispatch(outcome) /\ StartsAsyncUpdate(clientReq[r].Mode)
           THEN /\ apc' = [apc EXCEPT ![r] = "start"]
                /\ initialContext' = [initialContext EXCEPT ![r] = context[r]]
           ELSE UNCHANGED <<apc, initialContext>>
    /\ UNCHANGED <<clientReq, Retries, currentTurn, context, sessionLock>>
    /\ UNCHANGED <<asyncExit, sessionLocks, mutexCount, svars>>
    /\ UNCHANGED <<csPut, everPut, pred, reads, sleeps, lastRead, committed, created>>
    /\ UNCHANGED ovars

\* Fault: a response that leaves out the session id
ResponseBody_NoSessionID(r) ==
    [kind |-> "ok", session_id |-> NoSession, mode |-> clientReq[r].Mode,
     retries |-> IF Retries[r] > 0 THEN Retries[r] ELSE -1]

\* Fault: a response that carries the retries key whatever its value
ResponseBody_RetriesAlways(r) ==
    [kind |-> "ok", session_id |-> clientReq[r].SessionID, mode |-> clientReq[r].Mode,
     retries |-> Retries[r]]

\* The response map: session_id, mode and, when Retries > 0, retries
\* (-1 stands for a response without the retries key).
ResponseBody(r) ==
    [kind |-> "ok", session_id |-> clientReq[r].SessionID, mode |-> clientReq[r].Mode,
     retries |-> IF Retries[r] > 0 THEN Retries[r] ELSE -1]

\* json.NewEncoder(w).Encode(resp)
SendResponse(r) ==
    /\ Alive /\ pc[r] = "respond"
    /\ pc' = [pc EXCEPT ![r] = "done"]
    /\ status' = [status EXCEPT ![r] = 200]
    /\ respBody' = [respBody EXCEPT ![r] = ResponseBody(r)]
    /\ UNCHANGED <<clientReq, Retries, currentTurn, context, assistantMsg,
                   sessionLock, llamaReq>>
    /\ UNCHANGED <<avars, lvars, svars, gvars, created>>
    /\ UNCHANGED ovars

\* ------------------------------------- updateHistoryAndContextAsync
\* The template of one user + assistant exchange, and the token ids the
\* tokenize capability returns for it.
RenderExchange(prompt, reply) == <<"user", prompt, "assistant", reply>>
Tokenize(text) == <<text[2], text[4]>>

\* Fault: an Unlock() at the end of the successful path instead of a deferred one
DeferredUnlock_OnSuccessOnly(r, exit) ==
    /\ held' = IF exit = "put ok" THEN UnlockHeld(sessionLock[r]) ELSE held
    /\ fatal' = (fatal \/ (exit = "put ok" /\ UnlockFatal(sessionLock[r])))
    /\ lockCalls' = [lockCalls EXCEPT ![r].async = IF exit = "put ok" THEN @ + 1 ELSE @]
    /\ asyncExit' = [asyncExit EXCEPT ![r] = exit]
    /\ apc' = [apc EXCEPT ![r] = "done"]

\* The deferred function: recover(), then sessionLock.Unlock(); it runs on
\* every return of the goroutine.
DeferredUnlock(r, exit) ==
    /\ held' = UnlockHeld(sessionLock[r])
    /\ fatal' = (fatal \/ UnlockFatal(sessionLock[r]))
    /\ lockCalls' = [lockCalls EXCEPT ![r].async = @ + 1]
    /\ asyncExit' = [asyncExit EXCEPT ![r] = exit]
    /\ apc' = [apc EXCEPT ![r] = "done"]

\* Fault: the assistant message appended in front of the user message
NewHistory_AssistantFirst(initial, prompt, reply) ==
    Slice((IF initial.nil THEN <<>> ELSE initial.items)
              \o <<[Role |-> "assistant", Content |-> reply],
                    [Role |-> "user", Content |-> prompt]>>)

\* newHistory: the messages read, the user message and, when non-empty, the
\* assistant message.
NewHistory(initial, prompt, reply) ==
    LET base == IF initial.nil THEN <<>> ELSE initial.items
        withUser == Append(base, [Role |-> "user", Content |-> prompt])
    IN Slice(IF reply # EmptyMsg
             THEN Append(withUser, [Role |-> "assistant", Content |-> reply])
             ELSE withUser)

\* Fault: the new tokens put in front of the tokens read
UpdatedTokenizedContext_Prepended(initial, newTokens) ==
    Slice(newTokens \o (IF initial.nil THEN <<>> ELSE initial.items))

\* updatedFullTokenizedContext
UpdatedTokenizedContext(initial, newTokens) ==
    Slice((IF initial.nil THEN <<>> ELSE initial.items) \o newTokens)

\* Fault: a commit that stores the turn after the client's
NewTurn_Next(r) == clientReq[r].Turn + 1

\* The turn handed to the store with the new payload
NewTurn(r) == clientReq[r].Turn

\* raw: UpdateRawSessionContext(sessionID, newHistory, clientReq.Turn)
AsyncRawUpdate(r) ==
    /\ MayStep(r) /\ apc[r] = "start" /\ clientReq[r].Mode = "raw"
    /\ \E backendOK \in BOOLEAN :
        LET sid == clientReq[r].SessionID
            newHistory == NewHistory(initialContext[r], Prompt(r), assistantMsg[r])
        IN /\ rawStore' = UpdateSessionContext(rawStore, sid, newHistory, NewTurn(r), backendOK)
           /\ asyncExit' = [asyncExit EXCEPT ![r] = IF backendOK THEN "put ok" ELSE "put error"]
           /\ committed' = IF backendOK
                           THEN [committed EXCEPT ![r] = rawStore'[sid]] ELSE committed
           /\ csPut' = IF backendOK
                       THEN [csPut EXCEPT ![sid] = [mode |-> "raw", entry |-> rawStore'[sid]]]
                       ELSE csPut
           /\ everPut' = IF backendOK
                         THEN [everPut EXCEPT ![sid] = @ \cup {"raw"}] ELSE everPut
    /\ apc' = [apc EXCEPT ![r] = "increment"]
    /\ UNCHANGED <<hvars, initialContext, lvars, tokStore, sessions, messages>>
    /\ UNCHANGED <<pred, reads, sleeps, lastRead, lockCalls, created>>
    /\ UNCHANGED ovars

\* raw: sessionManager.IncrementSessionTurn(sessionID), then return.  The
\* server never reads the session manager's counter back and only logs the
\* outcome of the call, so the call is modelled by its position alone.
AsyncIncrementTurn(r) ==
    /\ MayStep(r) /\ apc[r] = "increment"
    /\ DeferredUnlock(r, asyncExit[r])
    /\ UNCHANGED <<hvars, initialContext, sessionLocks, mutexCount, svars>>
    /\ UNCHANGED <<csPut, everPut, pred, reads, sleeps, lastRead, committed, created>>
    /\ UNCHANGED ovars

\* Fault: a goroutine that goes on to tokenize an empty reply
NothingToAppend_Never(msg) == FALSE

\* if assistantMsg == "" { ...; return }
NothingToAppend(msg) == msg = EmptyMsg

\* tokenized: the empty-assistant return, or llamaService.Tokenize
AsyncTokenize(r) ==
    /\ MayStep(r) /\ apc[r] = "start" /\ clientReq[r].Mode = "tokenized"
    /\ IF NothingToAppend(assistantMsg[r])
       THEN DeferredUnlock(r, "no assistant message")
       ELSE \E tokenizeOK \in BOOLEAN :
              IF tokenizeOK
              THEN /\ apc' = [apc EXCEPT ![r] = "update"]
                   /\ UNCHANGED <<asyncExit, held, fatal, lockCalls>>
              ELSE DeferredUnlock(r, "tokenize error")
    /\ UNCHANGED <<hvars, initialContext, sessionLocks, mutexCount, svars>>
    /\ UNCHANGED <<csPut, everPut, pred, reads, sleeps, lastRead, committed, created>>
    /\ UNCHANGED ovars

\* tokenized: UpdateSessionContext(sessionID, updatedFullTokenizedContext,
\* clientReq.Turn), then return
AsyncTokenizedUpdate(r) ==
    /\ MayStep(r) /\ apc[r] = "update"
    /\ \E backendOK \in BOOLEAN :
        LET sid == clientReq[r].SessionID
            newTokens == Tokenize(RenderExchange(Prompt(r), assistantMsg[r]))
            updated == UpdatedTokenizedContext(initialContext[r], newTokens)
        IN /\ tokStore' = UpdateSessionContext(tokStore, sid, updated, NewTurn(r), backendOK)
           /\ committed' = IF backendOK
                           THEN [committed EXCEPT ![r] = tokStore'[sid]] ELSE committed
           /\ csPut' = IF backendOK
                       THEN [csPut EXCEPT ![sid] = [mode |-> "tokenized",
                                                   entry |-> tokStore'[sid]]]
                       ELSE csPut
           /\ everPut' = IF backendOK
                         THEN [everPut EXCEPT ![sid] = @ \cup {"tokenized"}] ELSE everPut
           /\ DeferredUnlock(r, IF backendOK THEN "put ok" ELSE "put error")
    /\ UNCHANGED <<hvars, initialContext, sessionLocks, mutexCount, rawStore, sessions, messages>>
    /\ UNCHANGED <<pred, reads, sleeps, lastRead, created>>
    /\ UNCHANGED ovars

\* A panic inside the goroutine: recovered by the deferred function
AsyncPanic(r) ==
    /\ MayStep(r) /\ apc[r] \in {"start", "increment", "update"}
    /\ DeferredUnlock(r, "panic")
    /\ UNCHANGED <<hvars, initialContext, sessionLocks, mutexCount, svars>>
    /\ UNCHANGED <<csPut, everPut, pred, reads, sleeps, lastRead, committed, created>>
    /\ UNCHANGED ovars

\* Both goroutines of a request have returned: its locals are gone.
Retire(r) ==
    /\ Finished(r)
    /\ pc' = [pc EXCEPT ![r] = "retired"]
    /\ clientReq' = [clientReq EXCEPT ![r] = Undrawn(NoSession)]
    /\ Retries' = [Retries EXCEPT ![r] = 0]
    /\ currentTurn' = [currentTurn EXCEPT ![r] = 0]
    /\ context' = [context EXCEPT ![r] = Nil]
    /\ assistantMsg' = [assistantMsg EXCEPT ![r] = EmptyMsg]
    /\ sessionLock' = [sessionLock EXCEPT ![r] = NoMutex]
    /\ status' = [status EXCEPT ![r] = 0]
    /\ respBody' = [respBody EXCEPT ![r] = [kind |-> "none"]]
    /\ llamaReq' = [llamaReq EXCEPT ![r] = [sent |-> FALSE]]
    /\ apc' = [apc EXCEPT ![r] = "none"]
    /\ asyncExit' = [asyncExit EXCEPT ![r] = "none"]
    /\ initialContext' = [initialContext EXCEPT ![r] = Nil]
    /\ pred' = [pred EXCEPT ![r] = NoPred]
    /\ reads' = [reads EXCEPT ![r] = 0]
    /\ sleeps' = [sleeps EXCEPT ![r] = 0]
    /\ lastRead' = [lastRead EXCEPT ![r] = NoRead]
    /\ lockCalls' = [lockCalls EXCEPT ![r] = [locks |-> 0, handler |-> 0, async |-> 0]]
    /\ committed' = [committed EXCEPT ![r] = NoCommit]
    /\ created' = [created EXCEPT ![r] = NothingCreated]
    /\ UNCHANGED <<lvars, svars, csPut, everPut>>
    /\ UNCHANGED ovars

\* ------------------------------------------- server.go: handleCompletion
\* The steps up to Lock(), the tokenize step of the goroutine, its deferred
\* function and the response write are the same code in server.go; the steps
\* below are the ones that differ.  server.go reads no turn: clientReq.Turn
\* keeps its zero value.

\* GetTextSessionContext: the stored messages in their order, rendered one
\* after the other (the bounds stay below rawHistoryLength), or the error of
\* GetSessionMessages.
GetTextSessionContext(sid, dbOK) ==
    IF dbOK THEN [text |-> messages[sid], err |-> "nil"]
    ELSE [text |-> <<>>, err |-> "error"]

\* From Lock() to the inference call: the mode branches.  None of the returns
\* in them calls Unlock.
SG_PrepareContext(r) ==
    /\ MayStep(r) /\ pc[r] = "locked"
    /\ \E mode \in Modes, backendOK \in BOOLEAN :
        LET sid == clientReq[r].SessionID
            text == GetTextSessionContext(sid, backendOK)
            res == GetSessionContext(tokStore, sid, backendOK)
            kept == NormalizeRead(res)
        IN /\ clientReq' = [clientReq EXCEPT ![r].Mode = mode]
           /\ IF mode = "raw"
              THEN IF text.err # "nil"
                   THEN /\ Reject(r, 500, [kind |-> "context retrieval failed"])
                        /\ UNCHANGED <<context, reads, lastRead>>
                   ELSE /\ pc' = [pc EXCEPT ![r] = "completion"]
                        /\ context' = [context EXCEPT ![r] = Slice(text.text)]
                        /\ UNCHANGED <<status, respBody, reads, lastRead>>
              ELSE IF mode = "tokenized"
              THEN /\ pc' = [pc EXCEPT ![r] = "completion"]
                   /\ context' = [context EXCEPT ![r] = kept.payload]
                   /\ reads' = [reads EXCEPT ![r] = @ + 1]
                   /\ lastRead' = [lastRead EXCEPT ![r] =
                                      [kind |-> res.err, payload |-> res.payload,
                                       turn |-> res.turn, stored |-> tokStore[sid]]]
                   /\ UNCHANGED <<status, respBody>>
              ELSE /\ Reject(r, 400, [kind |-> "invalid mode"])
                   /\ UNCHANGED <<context, reads, lastRead>>
    /\ UNCHANGED <<Retries, currentTurn, assistantMsg, sessionLock, llamaReq>>
    /\ UNCHANGED <<avars, lvars, svars>>
    /\ UNCHANGED <<csPut, everPut, pred, sleeps, lockCalls, committed>>
    /\ created' = CreatedAfterCheck(r, pc'[r] = "done")
    /\ UNCHANGED ovars

\* llamaService.Completion: the error return calls no Unlock; otherwise
\* assistantMsg is extracted and the goroutine is started for every mode.
SG_CallCompletion(r) ==
    /\ MayStep(r) /\ pc[r] = "completion"
    /\ llamaReq' = [llamaReq EXCEPT ![r] =
                       BuildLlamaReq(clientReq[r].Mode, context[r], Prompt(r),
                                     clientReq[r].OtherParams)]
    /\ \E outcome \in {"error", "content", "no content"} :
        IF outcome = "error"
        THEN /\ Reject(r, 500, [kind |-> "completion failed"])
             /\ UNCHANGED <<assistantMsg, apc, initialContext>>
        ELSE /\ assistantMsg' = [assistantMsg EXCEPT ![r] =
                                    IF outcome = "content" THEN Reply(r) ELSE EmptyMsg]
             /\ pc' = [pc EXCEPT ![r] = "respond"]
             /\ apc' = [apc EXCEPT ![r] = "start"]
             /\ initialContext' = [initialContext EXCEPT ![r] =
                                      IF clientReq[r].Mode = "tokenized"
                                      THEN context[r] ELSE Nil]
             /\ UNCHANGED <<status, respBody>>
    /\ UNCHANGED <<clientReq, Retries, currentTurn, context, sessionLock>>
    /\ UNCHANGED <<asyncExit, lvars, svars, gvars, created>>
    /\ UNCHANGED ovars

\* AddMessage appends one row; a failed call is logged and appends nothing
AddMessage(rows, role, content, dbOK) ==
    IF dbOK THEN Append(rows, [Role |-> role, Content |-> content]) ELSE rows

\* raw: AddMessage for the user message, then for a non-empty assistantMsg
SG_AsyncAddMessages(r) ==
    /\ MayStep(r) /\ apc[r] = "start" /\ clientReq[r].Mode = "raw"
    /\ \E userOK \in BOOLEAN, assistantOK \in BOOLEAN :
        LET sid == clientReq[r].SessionID
            withUser == AddMessage(messages[sid], "user", Prompt(r), userOK)
        IN messages' = [messages EXCEPT ![sid] =
                           IF assistantMsg[r] # EmptyMsg
                           THEN AddMessage(withUser, "assistant", assistantMsg[r], assistantOK)
                           ELSE withUser]
    /\ DeferredUnlock(r, "history updated")
    /\ UNCHANGED <<hvars, initialContext, sessionLocks, mutexCount, tokStore, rawStore, sessions>>
    /\ UNCHANGED <<csPut, everPut, pred, reads, sleeps, lastRead, committed, created>>
    /\ UNCHANGED ovars

\* tokenized: UpdateSessionContext(sessionID, updatedFullTokenizedContext);
\* this iteration hands no turn to the store, the entry keeps turn 0.
SG_AsyncTokenizedUpdate(r) ==
    /\ MayStep(r) /\ apc[r] = "update"
    /\ \E backendOK \in BOOLEAN :
        LET sid == clientReq[r].SessionID
            newTokens == Tokenize(RenderExchange(Prompt(r), assistantMsg[r]))
            updated == UpdatedTokenizedContext(initialContext[r], newTokens)
        IN /\ tokStore' = UpdateSessionContext(tokStore, sid, updated, tokStore[sid].turn,
                                               backendOK)
           /\ committed' = IF backendOK
                           THEN [committed EXCEPT ![r] = tokStore'[sid]] ELSE committed
           /\ csPut' = IF backendOK
                       THEN [csPut EXCEPT ![sid] = [mode |-> "tokenized",
                                                   entry |-> tokStore'[sid]]]
                       ELSE csPut
           /\ everPut' = IF backendOK
                         THEN [everPut EXCEPT ![sid] = @ \cup {"tokenized"}] ELSE everPut
           /\ DeferredUnlock(r, IF backendOK THEN "put ok" ELSE "put error")
    /\ UNCHANGED <<hvars, initialContext, sessionLocks, mutexCount, rawStore, sessions, messages>>
    /\ UNCHANGED <<pred, reads, sleeps, lastRead, created>>
    /\ UNCHANGED ovars

\* -------------------------------------------------------- specification
HandlerStep(r) ==
    \/ DecodeRequest(r)
    \/ CreateSession(r)
    \/ RegistryRead(r)
    \/ RegistryCreate(r)
    \/ AcquireSessionLock(r)
    \/ CheckTurnAndMode(r)
    \/ ReadContext(r)
    \/ RetrySleep(r)
    \/ CallCompletion(r)
    \/ SendResponse(r)

UpdaterStep(r) ==
    \/ AsyncRawUpdate(r)
    \/ AsyncIncrementTurn(r)
    \/ AsyncTokenize(r)
    \/ AsyncTokenizedUpdate(r)
    \/ AsyncPanic(r)

Next == \E r \in Req : HandlerStep(r) \/ UpdaterStep(r) \/ Retire(r)

Spec == Init /\ [][Next]_vars

\* Every goroutine that can take a step is scheduled in the end: the Go
\* scheduler runs runnable goroutines, and the calls a step stands for (store,
\* inference, tokenize, sleep) return.
FairSpec ==
    /\ Spec
    /\ \A r \in Req : WF_vars(HandlerStep(r)) /\ WF_vars(UpdaterStep(r)) /\ WF_vars(Retire(r))

\* server.go
NextServerGo ==
    \E r \in Req :
        \/ DecodeRequest(r)
        \/ CreateSession(r)
        \/ RegistryRead(r)
        \/ RegistryCreate(r)
        \/ AcquireSessionLock(r)
        \/ SG_PrepareContext(r)
        \/ SG_CallCompletion(r)
        \/ SendResponse(r)
        \/ SG_AsyncAddMessages(r)
        \/ AsyncTokenize(r)
        \/ SG_AsyncTokenizedUpdate(r)
        \/ AsyncPanic(r)
        \/ Retire(r)

SpecServerGo == Init /\ [][NextServerGo]_vars

\* The server of part_010 with two sessions and interleaved lock holders
SpecConcurrent == InitConcurrent /\ [][Next]_vars

\* The server of part_010 against a store that answers every read
SpecReliable == InitReliable /\ [][Next]_vars

\* The server of part_010 on a store it shares with another node (FReD
\* replicates the keygroup): while a request waits between two attempts of
\* its validation loop, the updater of the other node may commit to the entry
\* of the session, a payload of at least one item with a turn of at least 1.
\* The session lock is local to a node and does not keep that put out.  A run
\* sees one such put.
RemotePayloads(mode) == {p \in StorePayloads(mode) : ~p.nil /\ Len(p.items) >= 1}

RemoteUpdate(r) ==
    /\ Alive /\ pc[r] = "sleep" /\ storeCall.op = "none"
    /\ \E turn \in 1..MaxTurn :
         \E payload \in RemotePayloads(clientReq[r].Mode) :
            LET mode == clientReq[r].Mode
                sid == clientReq[r].SessionID
                store == UpdateSessionContext(StoreOf(mode), sid, payload, turn, TRUE)
            IN /\ IF mode = "raw"
                  THEN rawStore' = store /\ UNCHANGED tokStore
                  ELSE tokStore' = store /\ UNCHANGED rawStore
               /\ storeCall' = [op |-> "remote put", mode |-> mode, sid |-> sid,
                                payload |-> payload, turn |-> turn, err |-> "nil",
                                backend |-> "ok", waiting |-> r,
                                replaced |-> StoreOf(mode)[sid]]
    /\ UNCHANGED <<hvars, avars, lvars, sessions, messages, gvars, created>>
    /\ UNCHANGED <<scope, lastPut, cluster, boot, dbCall, redis>>

NextShared == Next \/ \E r \in Req : RemoteUpdate(r)

SpecShared == Init /\ [][NextShared]_vars

\* ------------------------------------------- ContextStorage interface
\* A caller of the interface (the server, or a test) issues puts, gets and
\* deletes with any arguments, and the backend answers or fails.
StorePut(sid, mode, payload, turn, backendOK) ==
    LET store == UpdateSessionContext(StoreOf(mode), sid, payload, turn, backendOK)
    IN /\ IF mode = "raw"
          THEN rawStore' = store /\ UNCHANGED tokStore
          ELSE tokStore' = store /\ UNCHANGED rawStore
       /\ storeCall' = [op |-> "put", mode |-> mode, sid |-> sid, payload |-> Nil,
                        turn |-> 0, err |-> IF backendOK THEN "nil" ELSE "error",
                        backend |-> IF backendOK THEN "ok" ELSE "error"]
       /\ lastPut' = LastPutWith(lastPut, [k \in {<<mode, sid>>} |->
                        IF backendOK
                        THEN [st |-> "put", payload |-> payload, turn |-> turn,
                              shrunk |-> Len(StoreOf(mode)[sid].payload.items)
                                            > Len(payload.items)]
                        ELSE [st |-> "unknown", payload |-> Nil, turn |-> 0,
                              shrunk |-> FALSE]])
       /\ UNCHANGED <<hvars, avars, lvars, sessions, messages, gvars, created>>
       /\ UNCHANGED <<scope, cluster, boot, dbCall, redis>>

StoreGet(sid, mode, backendOK) ==
    LET res == GetSessionContext(StoreOf(mode), sid, backendOK)
    IN /\ storeCall' = [op |-> "get", mode |-> mode, sid |-> sid, payload |-> res.payload,
                        turn |-> res.turn, err |-> res.err,
                        backend |-> IF backendOK THEN "ok" ELSE "error"]
       /\ UNCHANGED <<hvars, avars, lvars, svars, gvars, created>>
       /\ UNCHANGED <<scope, lastPut, cluster, boot, dbCall, redis>>

StoreDelete(sid, backendOK) ==
    LET resp == DeleteResponse(tokStore[sid].present \/ rawStore[sid].present, backendOK)
        after(m) == [st |-> IF ~backendOK THEN "unknown"
                            ELSE IF LastPutOf(lastPut, m, sid).st \in {"deleted", "deleted again"}
                            THEN "deleted again" ELSE "deleted",
                     payload |-> Nil, turn |-> 0, shrunk |-> FALSE]
    IN /\ tokStore' = DeleteEntry(tokStore, sid, backendOK)
       /\ rawStore' = DeleteEntry(rawStore, sid, backendOK)
       /\ storeCall' = [op |-> "delete", mode |-> "both", sid |-> sid, payload |-> Nil,
                        turn |-> 0, err |-> DeleteError(resp), backend |-> resp]
       /\ lastPut' = LastPutWith(lastPut, [k \in StoreModes \X {sid} |-> after(k[1])])
       /\ UNCHANGED <<hvars, avars, lvars, sessions, messages, gvars, created>>
       /\ UNCHANGED <<scope, cluster, boot, dbCall, redis>>

NextStore ==
    \E sid \in 1..scope.sessions, backendOK \in BOOLEAN :
        \/ \E mode \in StoreModes, turn \in Turns :
              \E payload \in StorePayloads(mode) :
                  StorePut(sid, mode, payload, turn, backendOK)
        \/ \E mode \in StoreModes : StoreGet(sid, mode, backendOK)
        \/ StoreDelete(sid, backendOK)

SpecStore == Init /\ [][NextStore]_vars

\* ----------------------------------------------- RedisContextStorage
\* The Redis server is one keyspace.  A cache key is a prefix followed by the
\* session id (strings are written as sequences of characters); the server
\* takes over a session id the client sends without looking at it, so an id
\* may itself begin with a prefix.
tokenPrefix == <<"c", "t", "x", "_">>
rawPrefix == <<"r", "a", "w", "_", "c", "t", "x", "_">>
SessionIDs == {<<"a">>, tokenPrefix \o <<"a">>}

\* Fault: one prefix for both representations
CacheKey_OnePrefix(mode, sessionID) == tokenPrefix \o sessionID

\* cacheKey := "ctx_" + sessionID / "raw_ctx_" + sessionID
CacheKey(mode, sessionID) ==
    (IF mode = "raw" THEN rawPrefix ELSE tokenPrefix) \o sessionID

\* json.Marshal of RedisContextData (context, turn) / RawRedisContextData
\* (messages, turn), and json.Unmarshal into the structure of the mode: a
\* field the document does not have stays nil.
RedisDocument(mode, payload, turn) ==
    IF mode = "raw" THEN [messages |-> payload, turn |-> turn]
    ELSE [context |-> payload, turn |-> turn]
RedisDecode(mode, doc) ==
    LET field == IF mode = "raw" THEN "messages" ELSE "context"
    IN [payload |-> IF field \in DOMAIN doc THEN doc[field] ELSE Nil, turn |-> doc.turn]

\* client.Set(ctx, cacheKey, dataBytes, 0) and client.Del(ctx, keys...)
RedisSet(space, key, doc) ==
    [k \in DOMAIN space \cup {key} |-> IF k = key THEN doc ELSE space[k]]
RedisDel(space, keys) == [k \in DOMAIN space \ keys |-> space[k]]

\* GetTokenizedSessionContext / GetRawSessionContext: redis.Nil for a key
\* that does not exist.  (The branch for an empty string is never taken for a
\* key this program has SET: it always writes a JSON document.)
RedisGetSessionContext(space, mode, sessionID, backendOK) ==
    LET cacheKey == CacheKey(mode, sessionID)
    IN IF ~backendOK THEN [payload |-> Nil, turn |-> 0, err |-> "error"]
       ELSE IF cacheKey \notin DOMAIN space
       THEN [payload |-> Nil, turn |-> 0, err |-> "notfound"]
       ELSE LET data == RedisDecode(mode, space[cacheKey])
            IN [payload |-> data.payload, turn |-> data.turn, err |-> "nil"]

\* The payloads handed to a put: nil, or two items
RedisPayloads(mode) == {Nil, Slice(<<Item(mode, 1), Item(mode, 2)>>)}

RedisUnchanged ==
    UNCHANGED <<hvars, avars, lvars, svars, gvars, created, scope, lastPut, cluster,
                boot, dbCall>>

\* UpdateSessionContext / UpdateRawSessionContext
RedisUpdate(sessionID, mode, payload, turn, backendOK) ==
    /\ redis' = IF backendOK
                THEN RedisSet(redis, CacheKey(mode, sessionID),
                              RedisDocument(mode, IF payload.nil THEN Slice(<<>>) ELSE payload,
                                            turn))
                ELSE redis
    /\ storeCall' = [op |-> "put", mode |-> mode, sid |-> sessionID, payload |-> payload,
                     turn |-> turn, err |-> IF backendOK THEN "nil" ELSE "error",
                     backend |-> IF backendOK THEN "ok" ELSE "error"]
    /\ RedisUnchanged

\* GetTokenizedSessionContext / GetRawSessionContext
RedisGet(sessionID, mode, backendOK) ==
    LET res == RedisGetSessionContext(redis, mode, sessionID, backendOK)
    IN /\ storeCall' = [op |-> "get", mode |-> mode, sid |-> sessionID,
                        payload |-> res.payload, turn |-> res.turn, err |-> res.err,
                        backend |-> IF backendOK THEN "ok" ELSE "error"]
       /\ UNCHANGED redis
       /\ RedisUnchanged

\* DeleteSessionContext: one DEL of tokenCacheKey and rawCacheKey
RedisDelete(sessionID, backendOK) ==
    LET keys == {CacheKey("tokenized", sessionID), CacheKey("raw", sessionID)}
        resp == DeleteResponse(keys \cap DOMAIN redis # {}, backendOK)
    IN /\ redis' = IF backendOK THEN RedisDel(redis, keys) ELSE redis
       /\ storeCall' = [op |-> "delete", mode |-> "both", sid |-> sessionID, payload |-> Nil,
                        turn |-> 0, err |-> DeleteError(resp), backend |-> resp]
       /\ RedisUnchanged

NextRedis ==
    \E sessionID \in SessionIDs, backendOK \in BOOLEAN :
        \/ \E mode \in StoreModes, turn \in 1..MaxTurn :
              \E payload \in RedisPayloads(mode) :
                  RedisUpdate(sessionID, mode, payload, turn, backendOK)
        \/ \E mode \in StoreModes : RedisGet(sessionID, mode, backendOK)
        \/ RedisDelete(sessionID, backendOK)

SpecRedis == Init /\ [][NextRedis]_vars

\* ------------------------------------------- NewFReDContextStorage
\* The nodes GetAllReplica lists, in its order (the first is the node the
\* storage object talks to), and permissionsToAdd.
NodeList == <<"self", "edge1", "edge2">>
Nodes == {NodeList[i] : i \in DOMAIN NodeList}
permissionsToAdd == <<"Read", "Write", "ConfigureReplica">>
Roles == {permissionsToAdd[i] : i \in DOMAIN permissionsToAdd}

\* The keygroup as a process may find it at startup: absent, or created by
\* some node with any replicas and roles; selfListed says whether the
\* node lists carry this node under the address the process was given.
Clusters ==
    {[exists |-> FALSE, replicas |-> {}, roles |-> {}, selfListed |-> l] : l \in BOOLEAN}
    \cup {[exists |-> TRUE, replicas |-> n, roles |-> u, selfListed |-> l] :
             n \in (SUBSET Nodes) \ {{}}, u \in SUBSET Roles, l \in BOOLEAN}

\* FReD's answer to GetKeygroupInfo: an error of some other kind when the
\* call fails, NotFound or "cannot get replica for keygroup" when this node
\* has no replica of the keygroup, the replica list otherwise.
GetKeygroupInfo(c, callOK) ==
    IF ~callOK THEN {"error"}
    ELSE IF ~c.exists THEN {"notfound", "cannotget"}
    ELSE IF "self" \notin c.replicas THEN {"cannotget"}
    ELSE {"ok"}

\* isNotFound || isCannotGetReplicaError
AppearsAbsent(answer) == answer \in {"notfound", "cannotget"}

\* FReD's answers to CreateKeygroup, AddUser and AddReplica
CreateKeygroupAnswer(c, callOK) ==
    IF ~callOK THEN "error" ELSE IF c.exists THEN "already" ELSE "ok"
AddUserAnswer(c, role, callOK) ==
    IF ~callOK THEN "error" ELSE IF role \in c.roles THEN "already" ELSE "ok"
AddReplicaAnswer(c, node, callOK) ==
    IF ~callOK THEN "error" ELSE IF node \in c.replicas THEN "already" ELSE "ok"

\* The refresh of keygroupInfo after CreateKeygroup: nil when it fails
Refreshed(c, answer) ==
    IF answer = "ok" THEN [nil |-> FALSE, replicas |-> c.replicas] ELSE NoInfo

\* Fault: a replication loop that skips no node
NeedsReplica_EveryNode(node, selfKnown, currentReplicas) == TRUE

\* The loop body up to AddReplica: the node is neither this node (when its
\* id is known) nor a current replica of the keygroup.
NeedsReplica(node, selfKnown, currentReplicas) ==
    /\ ~(selfKnown /\ node = "self")
    /\ node \notin currentReplicas

BootUnchanged ==
    UNCHANGED <<hvars, avars, lvars, svars, gvars, created, scope, storeCall, lastPut,
                dbCall, redis>>

\* NewFReDContextStorage up to the call of initializeKeygroup: credentials,
\* grpc.Dial, createKeygroupIfNotExist.  A process starts once the previous
\* one has returned; the model follows two starts.
BootStart ==
    /\ boot.pc = "idle" \/ (boot.pc = "returned" /\ boot.run = "first")
    /\ \E dialOK \in BOOLEAN, create \in BOOLEAN :
        boot' = [pc |-> IF dialOK /\ create THEN "getinfo" ELSE "returned",
                 run |-> IF boot.pc = "idle" THEN "first" ELSE "second",
                 create |-> dialOK /\ create,
                 keygroupInfo |-> NoInfo, idx |-> 0, selfKnown |-> FALSE,
                 calls |-> {}, failures |-> {}, result |-> "none",
                 startup |-> IF ~dialOK THEN "error" ELSE IF ~create THEN "ok" ELSE "none",
                 start |-> cluster,
                 afterFirst |-> IF boot.pc = "idle" THEN NoKeygroup ELSE boot.afterFirst,
                 firstClean |-> IF boot.pc = "idle" THEN FALSE ELSE boot.firstClean]
    /\ UNCHANGED cluster
    /\ BootUnchanged

\* 1. Check if the keygroup exists
BootGetKeygroupInfo ==
    /\ boot.pc = "getinfo"
    /\ \E callOK \in BOOLEAN : \E answer \in GetKeygroupInfo(cluster, callOK) :
        boot' = [boot EXCEPT
                   !.calls = @ \cup {"GetKeygroupInfo"},
                   !.keygroupInfo = Refreshed(cluster, answer),
                   !.failures = IF answer = "error" THEN @ \cup {"GetKeygroupInfo"} ELSE @,
                   !.result = IF answer = "error" THEN "error" ELSE @,
                   !.idx = 1,
                   !.pc = IF answer = "ok" THEN "adduser"
                          ELSE IF AppearsAbsent(answer) THEN "create" ELSE "initdone"]
    /\ UNCHANGED cluster
    /\ BootUnchanged

\* CreateKeygroup, and the refresh of keygroupInfo after it
BootCreateKeygroup ==
    /\ boot.pc = "create"
    /\ \E callOK \in BOOLEAN, refreshOK \in BOOLEAN :
        LET answer == CreateKeygroupAnswer(cluster, callOK)
            after == IF answer = "ok"
                     THEN [cluster EXCEPT !.exists = TRUE, !.replicas = {"self"}]
                     ELSE cluster
        IN /\ cluster' = after
           /\ IF answer = "error"
              THEN boot' = [boot EXCEPT !.calls = @ \cup {"CreateKeygroup"},
                                        !.failures = @ \cup {"CreateKeygroup"},
                                        !.result = "error", !.pc = "initdone"]
              ELSE \E refresh \in GetKeygroupInfo(after, refreshOK) :
                     boot' = [boot EXCEPT
                                !.calls = @ \cup {"CreateKeygroup", "GetKeygroupInfo"},
                                !.keygroupInfo = Refreshed(after, refresh),
                                !.failures = IF refresh = "ok" THEN @ ELSE @ \cup {"Refresh"},
                                !.pc = "adduser"]
    /\ BootUnchanged

\* One iteration of the loop over permissionsToAdd (an error of AddUser is
\* logged); after the last one the check of keygroupInfo == nil.
BootAddUser ==
    /\ boot.pc = "adduser"
    /\ \E callOK \in BOOLEAN :
        LET role == permissionsToAdd[boot.idx]
            answer == AddUserAnswer(cluster, role, callOK)
            last == boot.idx = Len(permissionsToAdd)
            failed == IF answer = "error" THEN {"AddUser"} ELSE {}
        IN /\ cluster' = IF answer = "ok"
                         THEN [cluster EXCEPT !.roles = @ \cup {role}] ELSE cluster
           /\ boot' = [boot EXCEPT
                         !.calls = @ \cup {"AddUser"},
                         !.failures = @ \cup failed,
                         !.idx = IF last THEN 0 ELSE @ + 1,
                         !.result = IF last /\ boot.keygroupInfo.nil THEN "nil" ELSE @,
                         !.pc = IF ~last THEN "adduser"
                                ELSE IF boot.keygroupInfo.nil THEN "initdone" ELSE "list"]
    /\ BootUnchanged

\* GetAllReplica (its error is logged and ends the function with nil),
\* selfNodeId, currentReplicas
BootGetAllReplica ==
    /\ boot.pc = "list"
    /\ \E callOK \in BOOLEAN :
        LET failed == IF callOK THEN {} ELSE {"GetAllReplica"}
        IN boot' = [boot EXCEPT
                      !.calls = @ \cup {"GetAllReplica"},
                      !.failures = @ \cup failed,
                      !.selfKnown = callOK /\ cluster.selfListed,
                      !.idx = IF callOK THEN 1 ELSE 0,
                      !.result = IF callOK THEN @ ELSE "nil",
                      !.pc = IF callOK THEN "addreplica" ELSE "initdone"]
    /\ UNCHANGED cluster
    /\ BootUnchanged

\* One iteration of the loop over allReplicasResp.Replicas (an error of
\* AddReplica is logged)
BootAddReplica ==
    /\ boot.pc = "addreplica"
    /\ \E callOK \in BOOLEAN :
        LET node == NodeList[boot.idx]
            called == NeedsReplica(node, boot.selfKnown, boot.keygroupInfo.replicas)
            answer == AddReplicaAnswer(cluster, node, callOK)
            last == boot.idx = Len(NodeList)
            failed == IF called /\ answer = "error" THEN {"AddReplica"} ELSE {}
        IN /\ called \/ callOK
           /\ cluster' = IF called /\ answer = "ok"
                         THEN [cluster EXCEPT !.replicas = @ \cup {node}] ELSE cluster
           /\ boot' = [boot EXCEPT
                         !.calls = IF called THEN @ \cup {"AddReplica"} ELSE @,
                         !.failures = @ \cup failed,
                         !.idx = IF last THEN 0 ELSE @ + 1,
                         !.result = IF last THEN "nil" ELSE @,
                         !.pc = IF last THEN "initdone" ELSE "addreplica"]
    /\ BootUnchanged

\* NewFReDContextStorage after initializeKeygroup: its error is returned
BootReturn ==
    /\ boot.pc = "initdone"
    /\ boot' = [boot EXCEPT
                  !.startup = IF boot.result = "error" THEN "error" ELSE "ok",
                  !.afterFirst = IF boot.run = "first" THEN cluster ELSE @,
                  !.firstClean = IF boot.run = "first"
                                 THEN boot.result = "nil" /\ boot.failures = {} ELSE @,
                  !.pc = "returned"]
    /\ UNCHANGED cluster
    /\ BootUnchanged

InitBootstrap == Started /\ scope = OrderedRun /\ cluster \in Clusters
NextBootstrap ==
    \/ BootStart
    \/ BootGetKeygroupInfo
    \/ BootCreateKeygroup
    \/ BootAddUser
    \/ BootGetAllReplica
    \/ BootAddReplica
    \/ BootReturn
SpecBootstrap == InitBootstrap /\ [][NextBootstrap]_vars

\* ------------------------------------------- SQLiteSessionManager
\* A caller of the session manager creates sessions, adds messages while
\* the clock runs on, and reads the messages of a session with a limit.

\* time.Now().Unix() as the latest call saw it
Clock == IF dbCall.op = "none" THEN 0 ELSE dbCall.now

\* AddMessage: timestamp := now + int64(7*24*60*60)
TimestampOf(now) == now + 7 * 24 * 60 * 60

\* AddMessage: the SELECT of the session row, then the INSERT.  The content
\* of a message stands for its place in the order the messages were added.
InsertMessage(rows, known, role, now, dbOK) ==
    IF ~dbOK THEN [rows |-> rows, err |-> "error"]
    ELSE IF ~known THEN [rows |-> rows, err |-> "session not found"]
    ELSE [rows |-> Append(rows, [Role |-> role, Content |-> Len(rows) + 1,
                                 Timestamp |-> TimestampOf(now)]),
          err |-> "nil"]

\* The fields of MessageInfo the server renders
MessageInfo(row) == [Role |-> row.Role, Content |-> row.Content]

\* ORDER BY timestamp ASC: the orders of the rows the query may produce
\* (rows with equal timestamps come in any order)
OrderByTimestampAsc(rows) ==
    {p \in Permutations(DOMAIN rows) :
        \A i, j \in DOMAIN rows :
            i < j => rows[p[i]].Timestamp <= rows[p[j]].Timestamp}

\* GetSessionMessages: SELECT ... WHERE session_id = ? ORDER BY timestamp ASC
\* LIMIT ?, the rows scanned into MessageInfo.  The set of its possible answers.
GetSessionMessages(rows, limit, dbOK) ==
    IF ~dbOK THEN {[messages |-> <<>>, err |-> "error"]}
    ELSE {[messages |-> [i \in 1..(IF limit < Len(rows) THEN limit ELSE Len(rows))
                           |-> MessageInfo(rows[p[i]])],
           err |-> "nil"] : p \in OrderByTimestampAsc(rows)}

DbUnchanged ==
    UNCHANGED <<hvars, avars, lvars, tokStore, rawStore, gvars, created,
                scope, storeCall, lastPut, cluster, boot, redis>>

\* CreateSession: a row of the sessions table under a new id
DbCreateSession ==
    /\ \E sid \in NextSession, dbOK \in BOOLEAN :
        /\ sessions' = IF dbOK THEN sessions \cup {sid} ELSE sessions
        /\ dbCall' = [op |-> "create", sid |-> sid, limit |-> 0, now |-> Clock,
                      messages |-> <<>>, err |-> IF dbOK THEN "nil" ELSE "error"]
    /\ UNCHANGED messages
    /\ DbUnchanged

\* AddMessage, the clock at the second of the call before or later
DbAddMessage ==
    /\ \E sid \in 1..scope.sessions, role \in {"user", "assistant"},
          now \in Clock..MaxClock, dbOK \in BOOLEAN :
        LET res == InsertMessage(messages[sid], sid \in sessions, role, now, dbOK)
        IN /\ Len(messages[sid]) < MaxMessages
           /\ now <= Clock + 1
           /\ messages' = [messages EXCEPT ![sid] = res.rows]
           /\ dbCall' = [op |-> "add", sid |-> sid, limit |-> 0, now |-> now,
                         messages |-> <<>>, err |-> res.err]
    /\ UNCHANGED sessions
    /\ DbUnchanged

\* GetSessionMessages(sessionID, limit)
DbGetSessionMessages ==
    /\ \E sid \in 1..scope.sessions, limit \in 1..MaxLimit, dbOK \in BOOLEAN :
        \E res \in GetSessionMessages(messages[sid], limit, dbOK) :
            dbCall' = [op |-> "get", sid |-> sid, limit |-> limit, now |-> Clock,
                       messages |-> res.messages, err |-> res.err]
    /\ UNCHANGED <<sessions, messages>>
    /\ DbUnchanged

NextHistory == DbCreateSession \/ DbAddMessage \/ DbGetSessionMessages
SpecHistory == Init /\ [][NextHistory]_vars

\* ================================================================ claims
Active(r) == apc[r] \in {"start", "increment", "update"}
SessionOf(r) == clientReq[r].SessionID
Validated(r) == clientReq[r].Mode \in {"raw", "tokenized"}
Released(r) == lockCalls[r].handler + lockCalls[r].async
Failed(r) == pc[r] = "done" /\ status[r] \in {400, 409, 500}

\* C1: two requests of one session are never between Lock() and Unlock() at
\* the same time, where the stretch of a raw or tokenized request runs on
\* through its goroutine up to the deferred Unlock(); whoever is in that
\* stretch holds the mutex.
C1_MutualExclusion ==
    /\ \A r1, r2 \in Req :
        (r1 # r2 /\ Holding(r1) /\ Holding(r2)) => SessionOf(r1) # SessionOf(r2)
    /\ \A r \in Req : Holding(r) => sessionLock[r] \in held

\* A request waits at Lock() while the goroutine of another request of the
\* same session still holds the mutex.
C1_Waiting ==
    \E r1, r2 \in Req :
        /\ r1 # r2 /\ Active(r1) /\ pc[r2] = "lock"
        /\ SessionOf(r1) = SessionOf(r2) /\ sessionLock[r2] \in held

C3_UpdaterTerminatesAndReleases ==
    /\ \A r \in Req :
        Active(r) ~> (apc[r] = "done" /\ lockCalls[r].async = 1 /\ sessionLock[r] \notin held)
    /\ \A r \in Req : (pc[r] = "lock") ~> (pc[r] # "lock")

\* A goroutine has returned on a failing exit with the mutex free, and a
\* request of the same session waits at Lock().
C3_FailedExitReleased ==
    \E r1, r2 \in Req :
        /\ r1 # r2 /\ apc[r1] = "done"
        /\ asyncExit[r1] \in {"tokenize error", "put error", "no assistant message", "panic"}
        /\ lockCalls[r1].async = 1
        /\ pc[r2] = "lock" /\ SessionOf(r1) = SessionOf(r2) /\ sessionLock[r2] \notin held

\* C4: a handler that fails after Lock() has called Unlock() when it returns,
\* and leaves the mutex of its session free.
C4_FailureReleasesLock ==
    \A r \in Req :
        (Failed(r) /\ lockCalls[r].locks = 1)
            => lockCalls[r].handler = 1 /\ sessionLock[r] \notin held

\* C5: every Lock() of a request is matched by exactly one Unlock(): by the
\* goroutine and never by the handler once the goroutine has been started
\* (raw and tokenized requests whose inference call succeeded), by the
\* handler and without any goroutine for a client-side or a failed request;
\* no mutex is unlocked that is not locked.
C5_LockReleaseMatched ==
    /\ ~fatal
    /\ \A r \in Req :
        /\ lockCalls[r].locks <= 1
        /\ Released(r) <= lockCalls[r].locks
        /\ Finished(r) => Released(r) = lockCalls[r].locks
        /\ apc[r] # "none" => (Validated(r) /\ lockCalls[r].handler = 0)
        /\ (Validated(r) /\ pc[r] \in {"respond", "done"} /\ status[r] \in {0, 200})
              => (apc[r] # "none" /\ lockCalls[r].handler = 0)
        /\ (clientReq[r].Mode = "client-side" \/ Failed(r))
              => (apc[r] = "none" /\ lockCalls[r].async = 0)

\* A request has finished with one Lock() and the one Unlock() of its
\* goroutine.
C5_ReleasedByUpdater ==
    \E r \in Req :
        /\ Finished(r) /\ status[r] = 200
        /\ lockCalls[r] = [locks |-> 1, handler |-> 0, async |-> 1]

\* C6: the turn stored for a session, in either representation, never
\* decreases.
C6_StoredTurnNeverDecreases ==
    [][\A s \in Sessions : /\ rawStore'[s].turn >= rawStore[s].turn
                           /\ tokStore'[s].turn >= tokStore[s].turn]_vars

\* C7: a representation no put has written holds no entry (turn 0), and a
\* successful put writes the client turn, which is one more than the turn the
\* request read at its accepting attempt.
C7_TurnAdvancesByOne ==
    /\ \A s \in Sessions : \A mode \in {"raw", "tokenized"} :
        mode \notin everPut[s] => StoreOf(mode)[s] = AbsentEntry
    /\ \A r \in Req :
        committed[r].present
            => /\ committed[r].turn = clientReq[r].Turn
               /\ committed[r].turn = currentTurn[r] + 1
               /\ lastRead[r].kind # "error" => committed[r].turn = lastRead[r].turn + 1

\* A put has written turn 2 after a read that returned turn 1.
C7_SecondTurnCommitted ==
    \E r \in Req :
        committed[r].present /\ committed[r].turn = 2 /\ lastRead[r].kind = "nil"

\* C8: a raw or tokenized request is at or past the inference call only if
\* the store held turn T-1 for it at its last read (no entry counting as 0),
\* and the payload stored then is the context given to inference and to the
\* goroutine.
C8_AcceptedOnStoredTurn ==
    \A r \in Req :
        (Validated(r) /\ llamaReq[r].sent)
            => /\ lastRead[r].stored.turn = clientReq[r].Turn - 1
               /\ context[r].items = lastRead[r].stored.payload.items
               /\ apc[r] # "none" => initialContext[r] = context[r]

\* C9: a request issues at most maxTurnRetries + 1 reads and maxTurnRetries
\* sleeps, one sleep between two reads; it goes on only after a mismatch, is
\* past the loop with as many reads as its accepting attempt index plus one,
\* and fails with 409 only after the last read and without a further sleep.
\* The loop ends: whenever the request is scheduled inside the loop its next
\* step exists, and each step raises reads + sleeps, which is bounded.
C9_RetryLoopBounded ==
    \A r \in Req :
        /\ reads[r] <= maxTurnRetries + 1
        /\ sleeps[r] <= maxTurnRetries
        /\ pc[r] = "read" => (sleeps[r] = reads[r] /\ Retries[r] = reads[r])
        /\ pc[r] = "sleep" => /\ sleeps[r] = reads[r] - 1
                              /\ clientReq[r].Turn # currentTurn[r] + 1
        /\ (pc[r] = "read" /\ reads[r] > 0) => clientReq[r].Turn # currentTurn[r] + 1
        /\ (Validated(r) /\ pc[r] \in {"completion", "respond"})
              => /\ reads[r] = Retries[r] + 1 /\ sleeps[r] = Retries[r]
                 /\ clientReq[r].Turn = currentTurn[r] + 1
        /\ status[r] = 409
              => /\ reads[r] = maxTurnRetries + 1 /\ sleeps[r] = maxTurnRetries
                 /\ clientReq[r].Turn # currentTurn[r] + 1
        /\ (pc[r] \in {"read", "sleep"} /\ MayStep(r))
              => ENABLED (ReadContext(r) \/ RetrySleep(r))

\* The same end of the loop as a property of the fair behaviours.
C9_LoopExits ==
    \A r \in Req : (pc[r] \in {"read", "sleep"}) ~> (pc[r] \notin {"read", "sleep"})

\* A request has failed with 409 after its last read, with five sleeps taken.
C9_LoopExhausted ==
    \E r \in Req :
        status[r] = 409 /\ reads[r] = maxTurnRetries + 1 /\ sleeps[r] = maxTurnRetries

\* C10: a 409 carries the client turn as the received turn and, as the
\* expected turn, one more than the turn the store held at the last read.
C10_ConflictCarriesTurns ==
    \A r \in Req :
        status[r] = 409
            => /\ respBody[r].kind = "conflict"
               /\ respBody[r].received = clientReq[r].Turn
               /\ respBody[r].expected = lastRead[r].stored.turn + 1

\* C11: a read that found no entry leaves the handler with turn 0 and an empty
\* payload; a request with turn 1 whose first read found no entry is accepted
\* at attempt 0 (one read, no sleep, Retries 0), is answered with no error of
\* the read (the only failure left is the inference call), and its response
\* carries no retries key.
C11_FreshSessionAccepted ==
    \A r \in Req :
        /\ (reads[r] >= 1 /\ lastRead[r].kind = "notfound")
              => (currentTurn[r] = 0 /\ context[r] = Slice(<<>>))
        /\ (reads[r] >= 1 /\ lastRead[r].kind = "notfound" /\ clientReq[r].Turn = 1)
              => /\ reads[r] = 1 /\ sleeps[r] = 0 /\ Retries[r] = 0
                 /\ pc[r] \in {"completion", "respond", "done"}
                 /\ status[r] \in {0, 200, 500}
                 /\ status[r] = 500 => respBody[r].kind = "completion failed"
                 /\ status[r] = 200 => respBody[r].retries = -1

\* A turn 1 request on a session without entry has been answered 200 after
\* one read that found nothing.
C11_FreshTurnOneAnswered ==
    \E r \in Req :
        /\ status[r] = 200 /\ clientReq[r].Turn = 1 /\ reads[r] = 1
        /\ lastRead[r].kind = "notfound" /\ ~lastRead[r].stored.present
        /\ respBody[r].retries = -1

C13_ReadFailureSurfaced ==
    \A r \in Req :
        (reads[r] >= 1 /\ lastRead[r].kind = "error")
            => /\ pc[r] = "done" /\ status[r] = 500
               /\ ~llamaReq[r].sent /\ apc[r] = "none" /\ ~committed[r].present

C15_RejectedRequestWritesNothing ==
    [][/\ \A r \in Req :
            (status'[r] = 409 \/ respBody'[r].kind = "completion failed")
                => /\ tokStore'[SessionOf(r)] = tokStore[SessionOf(r)]
                   /\ rawStore'[SessionOf(r)] = rawStore[SessionOf(r)]
                   /\ apc'[r] = "none" /\ asyncExit'[r] = "none"
                   /\ ~committed'[r].present
       /\ \A r \in Req :
            (pc'[r] # pc[r] /\ pc'[r] # "retired")
                => (tokStore' = tokStore /\ rawStore' = rawStore)]_vars

\* A raw request on a session with an entry has been answered 500 after a
\* failed inference call, and the entry is the one the request read.
C15_InferenceFailedEntryKept ==
    \E r \in Req :
        /\ status[r] = 500 /\ respBody[r].kind = "completion failed"
        /\ clientReq[r].Mode = "raw" /\ llamaReq[r].sent
        /\ rawStore[SessionOf(r)].present
        /\ rawStore[SessionOf(r)].turn = clientReq[r].Turn - 1
        /\ rawStore[SessionOf(r)].payload = context[r]

\* C16: a request answered 400 (undecodable body or "context" key, turn below
\* 1, unknown mode) has created no session row and no session mutex, has
\* started no goroutine and has committed nothing.
C16_ValidationRejectsBeforeMutation ==
    \A r \in Req :
        status[r] = 400
            => /\ created[r] = NothingCreated
               /\ apc[r] = "none" /\ ~committed[r].present

\* The messages a raw commit of r adds to the payload the handler read.
ExchangeOf(r) ==
    <<[Role |-> "user", Content |-> Prompt(r)]>>
        \o (IF assistantMsg[r] # EmptyMsg
            THEN <<[Role |-> "assistant", Content |-> assistantMsg[r]]>> ELSE <<>>)

\* C17: the entry a successful raw put of a request with turn T wrote holds
\* turn T and the payload of the request's accepting read (empty when that
\* read found no entry) followed by the user message and then, when the reply
\* is non-empty, the assistant message; until the goroutine returns, it is the
\* raw entry of the session.
C17_RawCommitContent ==
    \A r \in Req :
        (committed[r].present /\ clientReq[r].Mode = "raw")
            => /\ committed[r].turn = clientReq[r].Turn
               /\ ~committed[r].payload.nil
               /\ committed[r].payload.items = context[r].items \o ExchangeOf(r)
               /\ initialContext[r] = context[r]
               /\ lastRead[r].kind = "nil" => context[r] = lastRead[r].payload
               /\ lastRead[r].kind = "notfound" => context[r].items = <<>>
               /\ apc[r] = "increment" => rawStore[SessionOf(r)] = committed[r]

\* Turn 1 on a new session has stored [user, assistant] with turn 1, and the
\* raw put of turn 2 has stored the two messages read followed by its own two.
C17_RawSecondExchangeStored ==
    \E r \in Req :
        /\ committed[r].present /\ clientReq[r].Mode = "raw" /\ clientReq[r].Turn = 2
        /\ lastRead[r].kind = "nil" /\ lastRead[r].turn = 1
        /\ lastRead[r].payload.items =
              <<[Role |-> "user", Content |-> 1], [Role |-> "assistant", Content |-> MaxTurn + 2]>>
        /\ Len(committed[r].payload.items) = 4
        /\ rawStore[SessionOf(r)] = committed[r]

\* C18: when the raw put of a request has succeeded, the history of the
\* session ends with the messages of the request, the user message and then
\* the assistant message: they were appended before the put.
C18_HistoryAppendedBeforePut ==
    \A r \in Req :
        (committed[r].present /\ clientReq[r].Mode = "raw")
            => LET h == messages[SessionOf(r)]
                   n == Len(ExchangeOf(r))
               IN /\ Len(h) >= n
                  /\ SubSeq(h, Len(h) - n + 1, Len(h)) = ExchangeOf(r)

\* C19: the entry a successful tokenized put of a request with turn T wrote
\* holds turn T and the token sequence of the request's accepting read (empty
\* when that read found no entry), unchanged and in its order, followed by the
\* token ids tokenize returned for the rendered exchange of the request.
C19_TokenizedCommitContent ==
    \A r \in Req :
        (committed[r].present /\ clientReq[r].Mode = "tokenized")
            => /\ committed[r].turn = clientReq[r].Turn
               /\ ~committed[r].payload.nil
               /\ committed[r].payload.items =
                     context[r].items \o Tokenize(RenderExchange(Prompt(r), assistantMsg[r]))
               /\ assistantMsg[r] # EmptyMsg
               /\ initialContext[r] = context[r]
               /\ lastRead[r].kind = "nil" => context[r] = lastRead[r].payload
               /\ lastRead[r].kind = "notfound" => context[r].items = <<>>

\* The tokenized put of turn 2 has stored the two tokens read followed by the
\* two tokens of its own exchange.
C19_TokensAppended ==
    \E r \in Req :
        /\ committed[r].present /\ clientReq[r].Mode = "tokenized" /\ clientReq[r].Turn = 2
        /\ lastRead[r].kind = "nil" /\ lastRead[r].turn = 1
        /\ lastRead[r].payload.items = <<1, MaxTurn + 2>>
        /\ committed[r].payload.items = <<1, MaxTurn + 2, 2, MaxTurn + 3>>
        /\ tokStore[SessionOf(r)] = committed[r]

\* C20: no step of a client-side request changes an entry of the context
\* store or the messages of the history; the request issues no context read,
\* starts no goroutine and commits nothing.
C20_ClientSideTouchesNoStore ==
    [][\A r \in Req :
          ((pc'[r] # pc[r] \/ apc'[r] # apc[r]) /\ clientReq'[r].Mode = "client-side")
              => /\ tokStore' = tokStore /\ rawStore' = rawStore /\ messages' = messages
                 /\ reads'[r] = 0 /\ lastRead'[r] = NoRead
                 /\ apc'[r] = "none" /\ ~committed'[r].present]_vars

\* A client-side request has been answered 200 on a session whose raw entry
\* is there, without any read.
C20_ClientSideAnswered ==
    \E r \in Req :
        /\ clientReq[r].Mode = "client-side" /\ status[r] = 200 /\ reads[r] = 0
        /\ llamaReq[r].sent /\ ~llamaReq[r].hasContext
        /\ rawStore[SessionOf(r)].present /\ rawStore[SessionOf(r)].turn >= 1

\* C21 (as stated): while a client-side request is in its inference call it
\* holds no session mutex, and no request of its session waits at Lock() for a
\* mutex that is held.
C21_ClientSideNotSerialized ==
    \A r1 \in Req :
        (clientReq[r1].Mode = "client-side" /\ pc[r1] = "completion")
            => /\ sessionLock[r1] \notin held
               /\ \A r2 \in Req \ {r1} :
                    (pc[r2] = "lock" /\ SessionOf(r2) = SessionOf(r1))
                        => sessionLock[r2] \notin held

\* C21: a client-side request takes the session mutex like every other mode,
\* holds it through its inference call, so two client-side requests of one
\* session are never both in that call, and releases it with the one Unlock()
\* of the handler when the call has returned.
C21_ClientSideSerialized ==
    /\ \A r \in Req :
        /\ (clientReq[r].Mode = "client-side" /\ pc[r] = "completion")
              => /\ sessionLock[r] \in held
                 /\ lockCalls[r] = [locks |-> 1, handler |-> 0, async |-> 0]
        /\ (clientReq[r].Mode = "client-side" /\ pc[r] \in {"respond", "done"})
              => lockCalls[r] = [locks |-> 1, handler |-> 1, async |-> 0]
    /\ \A r1, r2 \in Req :
        ( /\ r1 # r2 /\ SessionOf(r1) = SessionOf(r2)
          /\ clientReq[r1].Mode = "client-side" /\ pc[r1] = "completion"
          /\ clientReq[r2].Mode = "client-side" ) => pc[r2] # "completion"

\* A client-side request is in its inference call while another request of
\* the same session waits at Lock() for the mutex it holds.
C21_ClientSideBlocksNext ==
    \E r1, r2 \in Req :
        /\ r1 # r2 /\ SessionOf(r1) = SessionOf(r2)
        /\ clientReq[r1].Mode = "client-side" /\ pc[r1] = "completion"
        /\ pc[r2] = "lock" /\ sessionLock[r2] \in held

\* C22: a client-side request is never turned away for its turn field: it is
\* never answered 400, whatever turn it carries.
C22_ClientSideSkipsTurnCheck ==
    \A r \in Req :
        clientReq[r].Mode = "client-side"
            => ~(status[r] = 400 /\ respBody[r].kind = "invalid turn")

\* C23: the goroutine of a request has done none of its work (tokenize, put,
\* turn advance) and has not ended as long as the handler has not written the
\* response of that request.
C23_ResponseBeforeCommit ==
    \A r \in Req :
        (apc[r] \in {"increment", "update", "done"} \/ committed[r].present)
            => pc[r] = "done"

\* C24: CreateSession runs before the request has looked up or locked
\* anything and leaves the lock registry alone; when it fails the request ends
\* with 500 and no registry entry or mutex of its own; when it succeeds the
\* session id is new and has no store entry, the request keeps that id, its
\* first context read yields turn 0, and the response carries the id.
C24_SessionCreatedBeforeLocking ==
    [][\A r \in Req :
          /\ (pc[r] = "create" /\ pc'[r] # "create")
                => /\ sessionLock[r] = NoMutex /\ lockCalls[r].locks = 0
                   /\ sessionLocks' = sessionLocks /\ mutexCount' = mutexCount
                   /\ held' = held /\ sessionLock'[r] = NoMutex
                   /\ \/ /\ pc'[r] = "registry"
                         /\ clientReq'[r].SessionID \in sessions' \ sessions
                         /\ ~tokStore'[clientReq'[r].SessionID].present
                         /\ ~rawStore'[clientReq'[r].SessionID].present
                      \/ /\ pc'[r] = "done" /\ status'[r] = 500
                         /\ sessions' = sessions /\ lockCalls'[r].locks = 0
          /\ (pc[r] \in {"registry", "regcreate", "lock", "locked", "read", "sleep",
                         "completion", "respond"})
                => clientReq'[r].SessionID = clientReq[r].SessionID
          /\ (pc[r] = "read" /\ created[r].session /\ pc'[r] # pc[r])
                => /\ reads'[r] = 1 /\ currentTurn'[r] = 0
                   /\ ~lastRead'[r].stored.present
          /\ (pc[r] = "respond" /\ pc'[r] = "done")
                => /\ respBody'[r].session_id = clientReq[r].SessionID
                   /\ clientReq[r].SessionID \in sessions]_vars

\* The first request of the run came without a session id, and has been
\* answered 200 with the id of the session created for it after one context
\* read that found turn 0.
C24_NewSessionAnswered ==
    /\ pc[1] = "done" /\ status[1] = 200 /\ Validated(1)
    /\ \A q \in Req \ {1} : pc[q] = "idle"
    /\ reads[1] = 1 /\ currentTurn[1] = 0 /\ clientReq[1].Turn = 1
    /\ respBody[1].session_id \in sessions

\* C25: at most one mutex is ever allocated for a session id, a registry
\* entry once there is never replaced or removed, and every request that is
\* past the registry holds the mutex of the entry of its session, whether it
\* found the entry under the read lock or went through the write-locked
\* section.
C25_RegistryUnique ==
    [][\A s \in Sessions :
          /\ mutexCount'[s] <= 1
          /\ sessionLocks[s] # NoMutex => sessionLocks'[s] = sessionLocks[s]
          /\ \A r \in Req :
                ( /\ clientReq'[r].SessionID = s
                  /\ pc'[r] \in {"lock", "locked", "read", "sleep", "completion"} )
                    => /\ sessionLock'[r] # NoMutex
                       /\ sessionLock'[r] = sessionLocks'[s]]_vars

\* Two requests of one session both missed the entry under the read lock; one
\* has created the mutex, the other is about to enter the write-locked
\* section and its double check.
C25_LostTheRace ==
    \E r1, r2 \in Req :
        /\ r1 # r2 /\ SessionOf(r1) = SessionOf(r2) /\ SessionOf(r1) \in Sessions
        /\ pc[r1] = "lock" /\ created[r1].mutex
        /\ pc[r2] = "regcreate" /\ sessionLock[r2] = NoMutex
        /\ sessionLocks[SessionOf(r1)] = sessionLock[r1]

\* C26: sessions have mutexes of their own, so the only thing that keeps a
\* request waiting at Lock() is a holder of its own session: whoever holds
\* the locks of other sessions, handler or goroutine, a request whose session
\* has no holder can take its lock, a handler that holds its lock can take its
\* next step (turn check, read, sleep, inference call), and a goroutine can
\* take its next step (put, turn advance, tokenize, return).
C26_SessionsIndependent ==
    /\ \A r1, r2 \in Req :
        ( /\ sessionLock[r1] # NoMutex /\ sessionLock[r2] # NoMutex
          /\ SessionOf(r1) # SessionOf(r2) ) => sessionLock[r1] # sessionLock[r2]
    /\ \A r \in Req :
        LET alone == \A q \in Req \ {r} :
                        SessionOf(q) = SessionOf(r)
                            => (~Holding(q) /\ ~(q < r /\ pc[q] = "lock"))
            scheduled == Running /\ \A q \in Req : ~BeforeLock(q)
        IN /\ (pc[r] = "lock" /\ alone)
                => /\ MutexFree(sessionLock[r])
                   /\ scheduled => ENABLED AcquireSessionLock(r)
           /\ (pc[r] \in {"locked", "read", "sleep", "completion"} /\ scheduled)
                => ENABLED HandlerStep(r)
           /\ (Active(r) /\ scheduled) => ENABLED UpdaterStep(r)

\* The goroutines of two requests of different sessions hold their locks at
\* the same time: the one that arrived first has not written yet, the one
\* that arrived after it has done its put.
C26_TwoSessionsCommitting ==
    \E r1, r2 \in Req :
        /\ r1 < r2 /\ SessionOf(r1) # SessionOf(r2)
        /\ apc[r1] = "start" /\ Active(r2) /\ committed[r2].present
        /\ sessionLock[r1] \in held /\ sessionLock[r2] \in held

C28_DeleteIdempotent ==
    [][/\ (storeCall'.op = "delete" /\ storeCall' # storeCall
              /\ storeCall'.backend \in {"ok", "notfound"})
            => /\ storeCall'.err = "nil"
               /\ ~tokStore'[storeCall'.sid].present
               /\ ~rawStore'[storeCall'.sid].present
       /\ (storeCall'.op = "delete" /\ storeCall'.backend = "notfound")
            => /\ tokStore' = tokStore /\ rawStore' = rawStore
               /\ storeCall'.err = "nil"
       /\ (storeCall'.op = "get" /\ storeCall'.backend = "ok"
              /\ LastPutOf(lastPut, storeCall'.mode, storeCall'.sid).st
                    \in {"deleted", "deleted again"})
            => /\ IsNotFoundError(storeCall'.err)
               /\ NormalizeRead(storeCall').turn = 0
               /\ NormalizeRead(storeCall').payload.items = <<>>]_vars

\* The session's context has been deleted a second time, with no put in
\* between, and the second delete returned no error.
C28_DeletedTwice ==
    /\ storeCall.op = "delete" /\ storeCall.backend = "notfound" /\ storeCall.err = "nil"
    /\ \A m \in StoreModes : LastPutOf(lastPut, m, storeCall.sid).st = "deleted again"

\* The keygroup exists, the user has the three roles and every node is a
\* replica.
FullyBootstrapped(c) == c.exists /\ c.roles = Roles /\ c.replicas = Nodes

C30_BootstrapFailurePropagated ==
    (boot.pc = "returned" /\ boot.create /\ boot.failures # {})
        => (boot.result = "error" /\ boot.startup = "error")

\* C31: when NewFReDContextStorage has run initializeKeygroup and returned
\* success, the keygroup exists and every node of the cluster other than this
\* node is one of its replicas.
C31_ReplicatedAfterSuccess ==
    (boot.pc = "returned" /\ boot.create /\ boot.startup = "ok")
        => /\ cluster.exists
           /\ (Nodes \ {"self"}) \subseteq cluster.replicas

\* The same with every call of the run answered: the property of the loop
\* itself.
C31_ReplicatedWhenAnswered ==
    (boot.pc = "returned" /\ boot.create /\ boot.startup = "ok" /\ boot.failures = {})
        => /\ cluster.exists
           /\ (Nodes \ {"self"}) \subseteq cluster.replicas

\* C32: a body with a "context" key is answered with 400 at the decode step,
\* whatever its other fields (the mode is not looked at before), and the step
\* creates no session and no mutex, takes no lock, reads and writes no store
\* entry and sends nothing to inference; no request that goes on carries a
\* "context" key among the parameters it forwards.  So a "context" key in the
\* request sent to inference is the payload of the request's accepting read
\* of the tokenized entry, and the messages rendered in front of a raw prompt
\* are the payload of its accepting read of the raw entry.
C32_ClientContextRejected ==
    [][\A r \in Req :
         /\ "context" \notin clientReq'[r].OtherParams
         /\ (pc[r] = "idle" /\ pc'[r] = "done")
              => /\ status'[r] = 400 /\ respBody'[r].kind = "invalid body"
                 /\ ~llamaReq'[r].sent /\ sessionLock'[r] = NoMutex
                 /\ UNCHANGED <<clientReq, avars, lvars, svars, gvars, created>>
         /\ (llamaReq'[r].sent /\ llamaReq'[r].hasContext)
              => /\ clientReq'[r].Mode = "tokenized"
                 /\ lastRead'[r].kind = "nil"
                 /\ llamaReq'[r].context = lastRead'[r].stored.payload.items
         /\ (llamaReq'[r].sent /\ clientReq'[r].Mode = "raw")
              => llamaReq'[r].prompt
                   = (IF lastRead'[r].kind = "nil"
                      THEN lastRead'[r].stored.payload.items ELSE <<>>)
                     \o <<[Role |-> "user", Content |-> Prompt(r)]>>]_vars

\* A body with a "context" key has been answered with 400 while an earlier
\* tokenized request of the session is being served with the context the
\* store held.
C32_ContextBodyRefused ==
    \E r1, r2 \in Req :
        /\ pc[r2] = "done" /\ status[r2] = 400 /\ respBody[r2].kind = "invalid body"
        /\ created[r2] = NothingCreated /\ lockCalls[r2].locks = 0
        /\ clientReq[r1].Mode = "tokenized" /\ llamaReq[r1].sent
        /\ llamaReq[r1].hasContext /\ Len(llamaReq[r1].context) > 0
        /\ llamaReq[r1].context = tokStore[SessionOf(r1)].payload.items

\* C33: a response with status 200 carries the retries key exactly when the
\* request issued more than one validation read, and its value is then the
\* zero-based index of the accepting read, which is the number of reads that
\* mismatched and of sleeps taken before it; the response of a request
\* accepted on its first read, and of a client-side request, has no such key.
C33_RetriesReported ==
    \A r \in Req :
        (pc[r] = "done" /\ status[r] = 200)
            => /\ respBody[r].kind = "ok"
               /\ Validated(r)
                    => /\ reads[r] >= 1
                       /\ (respBody[r].retries # -1) <=> (reads[r] > 1)
                       /\ reads[r] > 1 => /\ respBody[r].retries = reads[r] - 1
                                          /\ respBody[r].retries = sleeps[r]
               /\ ~Validated(r) => respBody[r].retries = -1

\* A request accepted on its second read has been answered with retries 1.
C33_AcceptedOnSecondRead ==
    \E r \in Req :
        /\ pc[r] = "done" /\ status[r] = 200 /\ Validated(r)
        /\ reads[r] = 2 /\ respBody[r].retries = 1

\* The last n of the rows in the order they were added
LastAdded(rows, n) ==
    LET k == IF n < Len(rows) THEN n ELSE Len(rows)
    IN [i \in 1..k |-> MessageInfo(rows[Len(rows) - k + i])]

\* C34: a GetSessionMessages(session, limit) the database answers returns the
\* messages added last, as many as the limit allows, in the order they were
\* added (stated for a session whose messages were added at different
\* seconds, so that their order by timestamp is the order they were added).
C34_RecentMessagesReturned ==
    (/\ dbCall.op = "get" /\ dbCall.err = "nil"
     /\ \A i, j \in DOMAIN messages[dbCall.sid] :
           i < j => messages[dbCall.sid][i].Timestamp < messages[dbCall.sid][j].Timestamp)
        => dbCall.messages = LastAdded(messages[dbCall.sid], dbCall.limit)

\* C35 as stated: a commit with turn T succeeds only when no commit with
\* turn T has succeeded for the session before, in whichever representation
\* (the stored turns count the commits, so none has reached T).
C35_OneCommitPerTurn ==
    [][\A r \in Req :
         (committed'[r].present /\ ~committed[r].present)
            => \A m \in StoreModes :
                  StoreOf(m)[clientReq[r].SessionID].turn < clientReq[r].Turn]_vars

\* C35: against a store that answers every read, per session and
\* representation: a commit with turn T succeeds only on an entry at turn
\* T - 1 and leaves it at turn T, and nothing else changes an entry, so the
\* stored turn counts the commits and each T is committed at most once; a read
\* accepts the request exactly when the entry is at turn T - 1, the entry
\* stays as it was read while the request is in its loop, and the request
\* ends with 409 after its last read otherwise, so a request with turn T that
\* follows a successful commit of T in its representation ends in a conflict;
\* a failed commit of T leaves the entry at turn T - 1, where the next
\* request with turn T is accepted.
C35_OneCommitPerTurnAndMode ==
    [][/\ \A r \in Req :
            LET sid == clientReq[r].SessionID
                mode == clientReq[r].Mode
                T == clientReq[r].Turn
            IN /\ (committed'[r].present /\ ~committed[r].present)
                    => /\ StoreOf(mode)[sid].turn = T - 1
                       /\ IF mode = "raw" THEN rawStore'[sid].turn = T
                                          ELSE tokStore'[sid].turn = T
               /\ (reads'[r] = reads[r] + 1)
                    => IF StoreOf(mode)[sid].turn = T - 1
                       THEN pc'[r] = "completion"
                       ELSE \/ pc'[r] = "sleep" /\ reads[r] < maxTurnRetries
                            \/ /\ pc'[r] = "done" /\ status'[r] = 409
                               /\ reads[r] = maxTurnRetries
               /\ (asyncExit'[r] = "put error" /\ asyncExit[r] # "put error")
                    => /\ rawStore' = rawStore /\ tokStore' = tokStore
                       /\ StoreOf(mode)[sid].turn = T - 1
               /\ (pc[r] \in {"read", "sleep"} /\ reads[r] > 0)
                    => lastRead[r].stored = StoreOf(mode)[sid]
               /\ (Validated(r) /\ reads[r] > 0 /\ pred[r].mode = mode
                      /\ pred[r].entry.turn = T)
                    => /\ pc[r] \in {"read", "sleep", "done"}
                       /\ status[r] \in {0, 409}
                       /\ ~llamaReq[r].sent
       /\ \A s \in Sessions, m \in StoreModes :
            LET after == IF m = "raw" THEN rawStore'[s] ELSE tokStore'[s]
            IN /\ after.turn >= StoreOf(m)[s].turn
               /\ after # StoreOf(m)[s]
                    => \E r \in Req : /\ committed'[r].present /\ ~committed[r].present
                                      /\ clientReq[r].Mode = m
                                      /\ clientReq[r].SessionID = s]_vars

\* A request has ended in a conflict after all its reads: the request before
\* it committed the same turn to the same representation.
C35_SameTurnAgainConflicts ==
    \E r \in Req :
        /\ pc[r] = "done" /\ status[r] = 409 /\ reads[r] = maxTurnRetries + 1
        /\ pred[r].mode = clientReq[r].Mode
        /\ pred[r].entry.turn = clientReq[r].Turn

\* C36: against a store that answers every read, every read of a request
\* returns the turn its first read returned, and the entry it reads stays as
\* it was read while the request is in the loop; so a request is accepted on
\* its first read or not at all: past the loop it has read once and slept
\* never, a conflict comes after all the reads, and a response with status
\* 200 carries no retries key.
C36_NoCommitBetweenAttempts ==
    \A r \in Req :
        /\ (Validated(r) /\ reads[r] > 0 /\ pc[r] \in {"read", "sleep"})
              => /\ lastRead[r].stored = StoreOf(clientReq[r].Mode)[SessionOf(r)]
                 /\ currentTurn[r] = lastRead[r].stored.turn
                 /\ clientReq[r].Turn # currentTurn[r] + 1
                 /\ \A q \in Req \ {r} : SessionOf(q) = SessionOf(r) => ~Active(q)
        /\ (Validated(r) /\ pc[r] \in {"completion", "respond"})
              => reads[r] = 1 /\ sleeps[r] = 0 /\ Retries[r] = 0
        /\ (pc[r] = "done" /\ status[r] = 409)
              => reads[r] = maxTurnRetries + 1
        /\ (pc[r] = "done" /\ status[r] = 200) => respBody[r].retries = -1

\* A request has gone through all its attempts and ended in a conflict, each
\* read having returned the turn the store still holds.
C36_AllAttemptsSameTurn ==
    \E r \in Req :
        /\ pc[r] = "done" /\ status[r] = 409 /\ Retries[r] = maxTurnRetries
        /\ lastRead[r].kind = "nil"
        /\ lastRead[r].stored = StoreOf(clientReq[r].Mode)[SessionOf(r)]
        /\ clientReq[r].Turn # lastRead[r].stored.turn + 1

\* The number of messages with role "user" in a raw payload
UserMessages(items) == Cardinality({i \in DOMAIN items : items[i].Role = "user"})

\* C37: the raw entry of a session, once written, holds as many user
\* messages as its turn says, whatever the replies were and whatever the
\* reads returned.
C37_RawUserMessagesMatchTurn ==
    \A s \in Sessions :
        rawStore[s].present
            => /\ ~rawStore[s].payload.nil
               /\ UserMessages(rawStore[s].payload.items) = rawStore[s].turn

\* A raw request whose read failed although the session had an entry, and
\* whose reply was empty, has committed: the entry now holds its user message
\* alone, at turn 1.
C37_RestartedFromEmpty ==
    \E r \in Req :
        /\ clientReq[r].Mode = "raw" /\ committed[r].present
        /\ lastRead[r].kind = "error" /\ lastRead[r].stored.turn >= 1
        /\ assistantMsg[r] = EmptyMsg
        /\ rawStore[SessionOf(r)].turn = 1
        /\ Len(rawStore[SessionOf(r)].payload.items) = 1

\* C38 as stated: the goroutine of a tokenized request with turn T whose
\* reply is empty returns without a put and releases the lock, the entry is
\* then at turn T - 1, and a tokenized request is accepted by a read when its
\* turn is one more than the stored turn (the repeat of T) and not accepted
\* when it is two more (T + 1), whatever the reads returned.
C38_NoContentThenRepeatAccepted ==
    [][\A r \in Req :
         LET sid == clientReq[r].SessionID
             T == clientReq[r].Turn
         IN /\ (asyncExit'[r] = "no assistant message" /\ asyncExit[r] = "none")
                 => /\ tokStore' = tokStore /\ rawStore' = rawStore
                    /\ sessionLock[r] \notin held'
                    /\ tokStore'[sid].turn = T - 1
            /\ (clientReq[r].Mode = "tokenized" /\ reads'[r] = reads[r] + 1)
                 => /\ (T = tokStore[sid].turn + 1) => pc'[r] = "completion"
                    /\ (T = tokStore[sid].turn + 2) => pc'[r] # "completion"]_vars

\* C38: a tokenized request whose inference response carries no content is
\* answered with status 200, and its goroutine returns at once: it reaches
\* neither the outcome of a tokenize call nor a put, leaves both entries of
\* the session as they are, and releases the lock.  The tokenized entry is
\* then still at the turn the request was accepted on (T - 1 when its read was
\* answered), and a tokenized request whose read is answered is accepted
\* exactly when its turn is one more than the stored turn: a request with
\* turn T + 1 mismatches on every answered read and ends with 409 after the
\* last, a repeat of turn T is accepted.
C38_NoContentNoCommit ==
    [][\A r \in Req :
         LET sid == clientReq[r].SessionID
             T == clientReq[r].Turn
         IN /\ (clientReq'[r].Mode = "tokenized" /\ assistantMsg'[r] = EmptyMsg
                  /\ apc'[r] # "none")
                 => /\ apc'[r] \in {"start", "done"}
                    /\ asyncExit'[r] \in {"none", "no assistant message", "panic"}
                    /\ ~committed'[r].present
                    /\ pc'[r] \in {"respond", "done"}
                    /\ pc'[r] = "done" => status'[r] = 200
            /\ (asyncExit'[r] = "no assistant message" /\ asyncExit[r] = "none")
                 => /\ clientReq[r].Mode = "tokenized" /\ apc[r] = "start"
                    /\ tokStore' = tokStore /\ rawStore' = rawStore
                    /\ sessionLock[r] \in held /\ sessionLock[r] \notin held'
                    /\ lockCalls'[r].async = 1 /\ lockCalls'[r].handler = 0
                    /\ lastRead[r].kind # "error" => tokStore'[sid].turn = T - 1
            /\ (clientReq[r].Mode = "tokenized" /\ reads'[r] = reads[r] + 1
                  /\ lastRead'[r].kind # "error")
                 => /\ (T = tokStore[sid].turn + 1) => pc'[r] = "completion"
                    /\ (T = tokStore[sid].turn + 2)
                         => \/ pc'[r] = "sleep"
                            \/ /\ pc'[r] = "done" /\ status'[r] = 409
                               /\ reads'[r] = maxTurnRetries + 1]_vars

\* The goroutine of a tokenized request of turn 2 has returned without a
\* commit because the reply was empty; the caller has its 200, the entry is
\* still at turn 1 and the lock is free.
C38_EmptyReplyReturned ==
    \E r \in Req :
        /\ clientReq[r].Mode = "tokenized" /\ clientReq[r].Turn = 2
        /\ asyncExit[r] = "no assistant message" /\ apc[r] = "done"
        /\ pc[r] = "done" /\ status[r] = 200
        /\ tokStore[SessionOf(r)].present /\ tokStore[SessionOf(r)].turn = 1
        /\ sessionLock[r] \notin held

\* The payload the latest validation read of r returned: empty when the read
\* found no entry, returned null or failed.
ReadPayload(r) ==
    IF lastRead[r].kind = "nil" /\ ~lastRead[r].payload.nil
    THEN lastRead[r].payload.items ELSE <<>>

\* C39: a request the loop has accepted was accepted by its latest read, the
\* one whose turn is T-1; the inference request is built from the payload that
\* read returned (raw: the messages in front of the prompt, tokenized: the
\* tokens as the context, none when there are none) and a successful put
\* writes that payload followed by the new exchange, also when the entry was
\* written by another node between two attempts: what earlier attempts
\* returned appears in neither.
C39_CommitExtendsAcceptingRead ==
    \A r \in Req :
        (Validated(r) /\ llamaReq[r].sent)
            => /\ lastRead[r].turn = clientReq[r].Turn - 1
               /\ context[r].items = ReadPayload(r)
               /\ IF clientReq[r].Mode = "raw"
                  THEN llamaReq[r].prompt =
                          ReadPayload(r) \o <<[Role |-> "user", Content |-> Prompt(r)]>>
                  ELSE /\ llamaReq[r].prompt = <<[Role |-> "user", Content |-> Prompt(r)]>>
                       /\ llamaReq[r].hasContext = (Len(ReadPayload(r)) > 0)
                       /\ llamaReq[r].context = ReadPayload(r)
               /\ committed[r].present
                    => /\ committed[r].turn = clientReq[r].Turn
                       /\ committed[r].payload.items =
                             ReadPayload(r) \o (IF clientReq[r].Mode = "raw"
                                                THEN ExchangeOf(r)
                                                ELSE <<Prompt(r), Reply(r)>>)

\* A request with turn T found another turn on an attempt, the other node then
\* wrote a different payload with turn T-1 while the request slept, a later
\* attempt returned that payload, and the request has committed it followed by
\* its exchange.
C39_CommittedOverRemoteWrite ==
    \E r \in Req :
        /\ committed[r].present /\ Retries[r] > 0
        /\ storeCall.op = "remote put" /\ storeCall.waiting = r
        /\ storeCall.turn = clientReq[r].Turn - 1
        /\ storeCall.replaced.turn # clientReq[r].Turn - 1
        /\ storeCall.replaced.payload # storeCall.payload
        /\ lastRead[r].kind = "nil" /\ lastRead[r].payload = storeCall.payload
        /\ Len(committed[r].payload.items) = Len(storeCall.payload.items) + 2
        /\ SubSeq(committed[r].payload.items, 1, Len(storeCall.payload.items))
              = storeCall.payload.items

\* What a read of the representation of the session returns from the keyspace
EntryIn(space, mode, sessionID) == RedisGetSessionContext(space, mode, sessionID, TRUE)

\* C40: in the Redis backend a put that succeeds makes the entry of its
\* session and its representation the payload and turn handed in, and no put
\* changes what a read returns for the other representation of the session or
\* for either representation of another session; a delete that succeeds
\* leaves both representations of its session not found and the entries of
\* the other sessions as they were; a get and a call that fails change nothing.
C40_RepresentationsSeparate ==
    [][LET call == storeCall'
       IN /\ call.op = "put"
             => /\ \A s \in SessionIDs, m \in StoreModes :
                      (s # call.sid \/ m # call.mode)
                         => EntryIn(redis', m, s) = EntryIn(redis, m, s)
                /\ call.backend = "ok"
                     => /\ call.err = "nil"
                        /\ EntryIn(redis', call.mode, call.sid).err = "nil"
                        /\ EntryIn(redis', call.mode, call.sid).turn = call.turn
                        /\ EntryIn(redis', call.mode, call.sid).payload.items
                              = call.payload.items
          /\ call.op = "delete"
             => /\ call.backend # "error"
                     => \A m \in StoreModes :
                           IsNotFoundError(EntryIn(redis', m, call.sid).err)
                /\ \A s \in SessionIDs \ {call.sid}, m \in StoreModes :
                      EntryIn(redis', m, s) = EntryIn(redis, m, s)
          /\ (call.op = "get" \/ call.backend = "error") => redis' = redis]_vars

\* Session "a" has just been advanced to turn MaxTurn in raw mode while its
\* tokenized representation is not found (turn 0 for the handler), and the
\* session "ctx_a" holds both representations at turn 1.
C40_RawAdvancedTokenizedFresh ==
    LET a == <<"a">>
        b == tokenPrefix \o <<"a">>
    IN /\ storeCall.op = "put" /\ storeCall.mode = "raw" /\ storeCall.sid = a
       /\ storeCall.backend = "ok"
       /\ EntryIn(redis, "raw", a).err = "nil" /\ EntryIn(redis, "raw", a).turn = MaxTurn
       /\ Len(EntryIn(redis, "raw", a).payload.items) = 2
       /\ IsNotFoundError(EntryIn(redis, "tokenized", a).err)
       /\ NormalizeRead(EntryIn(redis, "tokenized", a)).turn = 0
       /\ EntryIn(redis, "tokenized", b).err = "nil" /\ EntryIn(redis, "tokenized", b).turn = 1
       /\ EntryIn(redis, "raw", b).err = "nil" /\ EntryIn(redis, "raw", b).turn = 1
       /\ EntryIn(redis, "raw", b).payload.items = <<>>

====
